---- MODULE Spec2Model ----
(***************************************************************************)
(* Model of the metadata downloader (github/downloader.go) and of the      *)
(* in-memory store (github/store, type Mem).                               *)
(*                                                                         *)
(* One run of DownloadRepository or DownloadOrganization is a sequence of  *)
(* calls: calls on the storer (Version, Begin, Save*, Commit, Rollback)    *)
(* and queries to the GraphQL client.  Every such call is one step of the  *)
(* model and is appended to the log `calls`.  The call stack of the Go     *)
(* code is the variable `stack`.                                           *)
(*                                                                         *)
(* The content of a response is drawn when the code first reads it: the    *)
(* nodes of a fetched page when the query returns, the nodes of a page     *)
(* embedded in a parent's response when the walk of that connection reads  *)
(* it.  Every node delivered by the source is recorded in `src`, every     *)
(* page read in `pages`.                                                   *)
(***************************************************************************)
EXTENDS Integers, Sequences, FiniteSets, TLC

(* ---------------------------------------------------------------- bounds *)
MaxPageLen == 2
MaxSize == 4
MaxCalls == 4

\* Nodes and further pages the source holds in a run checked for termination.
MaxLiveSize == 3

\* Goroutines that call one Mem at the same time.
MaxCallers == 2

(* --------------------------------------------- page sizes, downloader.go *)
assigneesPage == 2
issueCommentsPage == 10
issuesPage == 50
labelsPage == 2
membersWithRolePage == 100
pullRequestReviewCommentsPage == 5
pullRequestReviewsPage == 5
pullRequestsPage == 50
repositoryTopicsPage == 50

VARIABLES
    pc,        \* position of the run: idle, begin, query, run, defer, done
    op,        \* "DownloadRepository" or "DownloadOrganization"
    sink,      \* the storer the Downloader was built with
    args,      \* owner, name, version given by the caller
    err,       \* the variable err of the run, read by the deferred function
    ret,       \* what the run returned
    stack,     \* call stack below DownloadRepository / DownloadOrganization
    calls,     \* every storer call and every query, in order
    pages,     \* every page read, embedded or fetched, in order
    src,       \* every node the source delivered; a node's id is its index
    budget,    \* nodes and continuation pages the source may still deliver
    Repos,     \* Mem.Repos
    reposAtBegin,  \* Mem.Repos when Begin was called
    mu,        \* Mem.mu: 0 when free, else the caller that holds it
    callers,   \* concurrent callers of one Mem: the method each is in
    bridge,    \* the migrate command: its position and its locals
    dest       \* every call the bridge made on the destination, in order

vars == <<pc, op, sink, args, err, ret, stack, calls, pages, src, budget,
          Repos, reposAtBegin, mu, callers, bridge, dest>>

\* The variables of the bridge.
bridgeVars == <<bridge, dest>>

\* The variables of the programs around a download run.
apart == <<mu, callers, bridge, dest>>

\* The migrate command before Execute has obtained a store.
BridgeOff ==
    [pc |-> "off", m |-> "nil", todo |-> {}, pr |-> 0, bitPRId |-> 0,
     comments |-> <<>>, reviews |-> {}, nested |-> <<>>, reviewResp |-> 0,
     ret |-> ""]

\* No other program is running.
ApartInit ==
    /\ mu = 0
    /\ callers = <<>>
    /\ bridge = BridgeOff
    /\ dest = <<>>

NoError == "nil"
NotFound == "not found"
SinkError == "sink error"
QueryError == "query error"

\* The owner login of the repository in the response is the owner asked for
\* or another spelling of it.  The login is read by Mem alone.
Owners == {"o", "O"}
EmptyMap == [k \in {} |-> k]
Numbers == 1..MaxSize

\* The versions a caller passes to SetCurrent, Cleanup and to the storer.
Versions == {1, 2}

(* ------------------------------------------------------------- store.Mem *)
HasRepo(R, owner, name) ==
    /\ owner \in DOMAIN R
    /\ name \in DOMAIN R[owner]

HasPR(R, owner, name, number) ==
    /\ HasRepo(R, owner, name)
    /\ number \in DOMAIN R[owner][name].PRs

HasReview(R, owner, name, number, review) ==
    /\ HasPR(R, owner, name, number)
    /\ review \in DOMAIN R[owner][name].PRs[number].Reviews

Put(m, k, v) == [x \in DOMAIN m \cup {k} |-> IF x = k THEN v ELSE m[x]]

MemSaveRepository(R, e) ==
    LET inner == IF e.owner \in DOMAIN R THEN R[e.owner] ELSE EmptyMap
        repo == [RepositoryFields |-> e.ent, Topics |-> e.l1, PRs |-> EmptyMap]
    IN [err |-> NoError, Repos |-> Put(R, e.owner, Put(inner, e.name, repo))]

\* Mutant: the lookup creates the owner's map when it is missing, as
\* SaveRepository does, before it reports the repository as not found.
MemSavePullRequestMakesOwner(R, e) ==
    IF ~HasRepo(R, e.owner, e.name)
    THEN [err |-> NotFound,
          Repos |-> IF e.owner \in DOMAIN R THEN R ELSE Put(R, e.owner, EmptyMap)]
    ELSE LET pr == [PullRequest |-> e.ent, Assignees |-> e.l1, Labels |-> e.l2,
                    Comments |-> <<>>, Reviews |-> EmptyMap]
         IN [err |-> NoError,
             Repos |-> [R EXCEPT ![e.owner][e.name].PRs = Put(@, e.number, pr)]]

MemSavePullRequest(R, e) ==
    IF ~HasRepo(R, e.owner, e.name)
    THEN [err |-> NotFound, Repos |-> R]
    ELSE LET pr == [PullRequest |-> e.ent, Assignees |-> e.l1, Labels |-> e.l2,
                    Comments |-> <<>>, Reviews |-> EmptyMap]
         IN [err |-> NoError,
             Repos |-> [R EXCEPT ![e.owner][e.name].PRs = Put(@, e.number, pr)]]

\* Mutant: the comment is put in front of the ones stored before.
MemSavePullRequestCommentInFront(R, e) ==
    IF ~HasPR(R, e.owner, e.name, e.number)
    THEN [err |-> NotFound, Repos |-> R]
    ELSE [err |-> NoError,
          Repos |-> [R EXCEPT ![e.owner][e.name].PRs[e.number].Comments =
                                  <<e.ent>> \o @]]

MemSavePullRequestComment(R, e) ==
    IF ~HasPR(R, e.owner, e.name, e.number)
    THEN [err |-> NotFound, Repos |-> R]
    ELSE [err |-> NoError,
          Repos |-> [R EXCEPT ![e.owner][e.name].PRs[e.number].Comments =
                                  Append(@, e.ent)]]

MemSavePullRequestReview(R, e) ==
    IF ~HasPR(R, e.owner, e.name, e.number)
    THEN [err |-> NotFound, Repos |-> R]
    ELSE LET rv == [PullRequestReview |-> e.ent, Comments |-> <<>>]
         IN [err |-> NoError,
             Repos |-> [R EXCEPT ![e.owner][e.name].PRs[e.number].Reviews =
                                     Put(@, e.review, rv)]]

MemSavePullRequestReviewComment(R, e) ==
    IF ~HasReview(R, e.owner, e.name, e.number, e.review)
    THEN [err |-> NotFound, Repos |-> R]
    ELSE [err |-> NoError,
          Repos |-> [R EXCEPT
              ![e.owner][e.name].PRs[e.number].Reviews[e.review].Comments =
                  Append(@, e.ent)]]

\* Mutant: the method looks its repository up as the pull request Saves do.
MemNoopNeedsRepo(R, e) ==
    [err |-> IF HasRepo(R, e.owner, e.name) THEN NoError ELSE NotFound,
     Repos |-> R]

\* SaveOrganization, SaveUser, SaveIssue, SaveIssueComment only print;
\* Begin, Commit, Rollback, Version return nil and touch nothing.
MemNoop(R, e) == [err |-> NoError, Repos |-> R]

MemRollback(R, e) == MemNoop(R, e)

MemCall(R, e) ==
    CASE e.call = "SaveRepository" -> MemSaveRepository(R, e)
      [] e.call = "SavePullRequest" -> MemSavePullRequest(R, e)
      [] e.call = "SavePullRequestComment" -> MemSavePullRequestComment(R, e)
      [] e.call = "SavePullRequestReview" -> MemSavePullRequestReview(R, e)
      [] e.call = "SavePullRequestReviewComment" ->
             MemSavePullRequestReviewComment(R, e)
      [] e.call = "Rollback" -> MemRollback(R, e)
      [] OTHER -> MemNoop(R, e)

(* ------------------------------------------------- downloader: the code *)
\* The functions that walk one connection, page by page.
Walks == {"downloadTopics", "downloadIssues", "downloadIssueAssignees",
          "downloadIssueLabels", "downloadIssueComments", "downloadPullRequests",
          "downloadPullRequestAssignees", "downloadPullRequestLabels",
          "downloadPullRequestComments", "downloadPullRequestReviews",
          "downloadReviewComments", "downloadUsers"}

\* What a walk does with each node of a page: append it to the list it
\* returns, make one Save call, or call the closure `process`.
Handler(fn) ==
    CASE fn = "downloadTopics" -> "append"
      [] fn = "downloadIssues" -> "processIssue"
      [] fn = "downloadIssueAssignees" -> "append"
      [] fn = "downloadIssueLabels" -> "append"
      [] fn = "downloadIssueComments" -> "SaveIssueComment"
      [] fn = "downloadPullRequests" -> "processPullRequest"
      [] fn = "downloadPullRequestAssignees" -> "append"
      [] fn = "downloadPullRequestLabels" -> "append"
      [] fn = "downloadPullRequestComments" -> "SavePullRequestComment"
      [] fn = "downloadPullRequestReviews" -> "processReview"
      [] fn = "downloadReviewComments" -> "SavePullRequestReviewComment"
      [] fn = "downloadUsers" -> "SaveUser"

\* Mutant: the labels of a pull request are asked for by the page of its
\* comments.
PageSizeOfComments(fn) ==
    CASE fn = "downloadTopics" -> repositoryTopicsPage
      [] fn = "downloadIssues" -> issuesPage
      [] fn = "downloadIssueAssignees" -> assigneesPage
      [] fn = "downloadIssueLabels" -> labelsPage
      [] fn = "downloadIssueComments" -> issueCommentsPage
      [] fn = "downloadPullRequests" -> pullRequestsPage
      [] fn = "downloadPullRequestAssignees" -> assigneesPage
      [] fn = "downloadPullRequestLabels" -> issueCommentsPage
      [] fn = "downloadPullRequestComments" -> issueCommentsPage
      [] fn = "downloadPullRequestReviews" -> pullRequestReviewsPage
      [] fn = "downloadReviewComments" -> pullRequestReviewCommentsPage
      [] fn = "downloadUsers" -> membersWithRolePage

\* The page size each walk puts in the variables of its query.
PageSize(fn) ==
    CASE fn = "downloadTopics" -> repositoryTopicsPage
      [] fn = "downloadIssues" -> issuesPage
      [] fn = "downloadIssueAssignees" -> assigneesPage
      [] fn = "downloadIssueLabels" -> labelsPage
      [] fn = "downloadIssueComments" -> issueCommentsPage
      [] fn = "downloadPullRequests" -> pullRequestsPage
      [] fn = "downloadPullRequestAssignees" -> assigneesPage
      [] fn = "downloadPullRequestLabels" -> assigneesPage
      [] fn = "downloadPullRequestComments" -> issueCommentsPage
      [] fn = "downloadPullRequestReviews" -> pullRequestReviewsPage
      [] fn = "downloadReviewComments" -> pullRequestReviewCommentsPage
      [] fn = "downloadUsers" -> membersWithRolePage

\* The statements of each function body, in order: a walk or a Save call.
\* Mutant: the pull requests are walked before the issues.
DownloadRepositoryBodyPullRequestsFirst ==
    <<"downloadTopics", "SaveRepository", "downloadPullRequests",
      "downloadIssues">>

DownloadRepositoryBody ==
    <<"downloadTopics", "SaveRepository", "downloadIssues",
      "downloadPullRequests">>

\* Mutant: the members are walked before the organization is saved.
DownloadOrganizationBodyUsersFirst == <<"downloadUsers", "SaveOrganization">>

DownloadOrganizationBody == <<"SaveOrganization", "downloadUsers">>

\* Mutant: the issue is saved before its labels are walked.
downloadIssuesProcessSaveEarly ==
    <<"downloadIssueAssignees", "SaveIssue", "downloadIssueLabels",
      "downloadIssueComments">>

downloadIssuesProcess ==
    <<"downloadIssueAssignees", "downloadIssueLabels", "SaveIssue",
      "downloadIssueComments">>

\* Mutant: the comments of a pull request are walked before its Save call.
downloadPullRequestsProcessCommentsFirst ==
    <<"downloadPullRequestAssignees", "downloadPullRequestLabels",
      "downloadPullRequestComments", "SavePullRequest",
      "downloadPullRequestReviews">>

downloadPullRequestsProcess ==
    <<"downloadPullRequestAssignees", "downloadPullRequestLabels",
      "SavePullRequest", "downloadPullRequestComments",
      "downloadPullRequestReviews">>

\* Mutant: a review is saved and its comments are left unread.
downloadPullRequestReviewsProcessSaveOnly == <<"SavePullRequestReview">>

downloadPullRequestReviewsProcess ==
    <<"SavePullRequestReview", "downloadReviewComments">>

Bodies == {"DownloadRepository", "DownloadOrganization", "processIssue",
           "processPullRequest", "processReview"}

Steps(fn) ==
    CASE fn = "DownloadRepository" -> DownloadRepositoryBody
      [] fn = "DownloadOrganization" -> DownloadOrganizationBody
      [] fn = "processIssue" -> downloadIssuesProcess
      [] fn = "processPullRequest" -> downloadPullRequestsProcess
      [] fn = "processReview" -> downloadPullRequestReviewsProcess

\* Mutant: on success the deferred function activates the version.
DeferredActivates(e) == IF e # NoError THEN "Rollback" ELSE "SetActiveVersion"

\* Mutant: the deferred function commits whatever err holds.
DeferredAlwaysCommit(e) == "Commit"

\* The deferred function of DownloadRepository and DownloadOrganization.
Deferred(e) == IF e # NoError THEN "Rollback" ELSE "Commit"

\* Mutant: the loop body runs once before hasNextPage is tested (do-while).
ShouldFetchDoWhile(f) == f.nodes = <<>> /\ (f.hasNextPage \/ f.page = 1)

\* Mutant: the next page is requested while nodes of this one are pending.
ShouldFetchEager(f) == f.hasNextPage

\* `for hasNextPage { ... }` after the loop over the nodes of the page in hand.
ShouldFetch(f) == f.nodes = <<>> /\ f.hasNextPage

\* Mutant: the id is read through a pointer to the loop variable of the
\* caller's loop over the page, which has moved on to the page's last node.
FetchIdStale(f) ==
    IF Len(stack) >= 3 /\ stack[Len(stack) - 2].nodes # <<>>
    THEN stack[Len(stack) - 2].nodes[Len(stack[Len(stack) - 2].nodes)]
    ELSE f.ent

\* variables["id"]: the node whose connection the query pages through.
FetchId(f) == f.ent

\* Mutant: endCursor is not updated from the pages the loop fetches.
FetchCursorOfFirstPage(f) == [f.endCursor EXCEPT !.page = 1]

\* variables[...Cursor] = githubv4.String(endCursor)
FetchCursor(f) == f.endCursor

\* Mutant: hasNextPage is not updated from the page a fetch returned.
NextHasNextPageStuck(more) == TRUE

\* hasNextPage = q...PageInfo.HasNextPage at the end of each iteration.
NextHasNextPage(more) == more

\* Mutant: the error of a Save call is logged and the walk goes on.
FailedQueryOnly(e) == e = QueryError

\* `if err != nil { return ... }` after a Save call or a query.
Failed(e) == e # NoError

(* --------------------------------------------------- frames, events, log *)
NoCursor == [conn |-> "", ent |-> 0, page |-> 0]

Frame(fn, ent) ==
    [fn |-> fn, ent |-> ent, pc |-> 1, nodes |-> <<>>, hasNextPage |-> FALSE,
     endCursor |-> NoCursor, page |-> 0, acc |-> <<>>, assignees |-> <<>>,
     labels |-> <<>>, topics |-> <<>>]

Event(call) ==
    [call |-> call, ok |-> TRUE, ent |-> 0, conn |-> "", owner |-> "",
     name |-> "", number |-> 0, review |-> 0, cursor |-> NoCursor, size |-> 0,
     l1 |-> <<>>, l2 |-> <<>>, version |-> 0]

Top == stack[Len(stack)]
Below == SubSeq(stack, 1, Len(stack) - 1)

NodeKind(fn) ==
    CASE fn = "downloadTopics" -> "topic"
      [] fn = "downloadIssues" -> "issue"
      [] fn \in {"downloadIssueAssignees", "downloadPullRequestAssignees"} -> "user"
      [] fn \in {"downloadIssueLabels", "downloadPullRequestLabels"} -> "label"
      [] fn = "downloadIssueComments" -> "issueComment"
      [] fn = "downloadPullRequests" -> "pullRequest"
      [] fn = "downloadPullRequestComments" -> "issueComment"
      [] fn = "downloadPullRequestReviews" -> "review"
      [] fn = "downloadReviewComments" -> "reviewComment"
      [] fn = "downloadUsers" -> "member"

\* Number of an issue or pull request, DatabaseId of a review.
NumbersOf(fn) ==
    IF fn \in {"downloadIssues", "downloadPullRequests",
               "downloadPullRequestReviews"}
    THEN Numbers ELSE {0}

Node(kind, parent, num, login) ==
    [kind |-> kind, parent |-> parent, num |-> num, login |-> login]

NewIds(n) == [i \in 1..n |-> Len(src) + i]

\* Numbers are opaque keys of which only equality is read: the number of a new
\* node is one its earlier siblings use, or the least number none of them uses.
SiblingNumbers(fn, ent) ==
    {src[i].num : i \in {j \in 1..Len(src) : /\ src[j].kind = NodeKind(fn)
                                             /\ src[j].parent = ent}}

Largest(S) == IF S = {} THEN 0 ELSE CHOOSE x \in S : \A y \in S : y <= x

PageNumbers(fn, ent, n) ==
    LET used == Largest(SiblingNumbers(fn, ent)) IN
    {nums \in [1..n -> NumbersOf(fn) \cap 0..(used + n)] :
        \A i \in 1..n :
            nums[i] <= 1 + Largest({used} \cup {nums[j] : j \in 1..(i - 1)})}

Cost(n, more) == n + (IF more THEN 1 ELSE 0)

\* The source delivers one page of connection fn of node ent.
Deliver(fn, ent, n, more, nums, fetched) ==
    /\ src' = src \o [i \in 1..n |-> Node(NodeKind(fn), ent, nums[i], "")]
    /\ budget' = budget - Cost(n, more)
    /\ pages' = Append(pages, [conn |-> fn, ent |-> ent, nodes |-> NewIds(n),
                               hasNextPage |-> more, at |-> Len(calls'),
                               fetched |-> fetched])

\* Mutant: the loop over the nodes of a page starts at its second node.
WithPageFromSecond(f, n, more) ==
    LET ids == IF n = 0 THEN <<>> ELSE Tail(NewIds(n)) IN
    [f EXCEPT !.nodes = IF Handler(f.fn) = "append" THEN <<>> ELSE ids,
              !.acc = IF Handler(f.fn) = "append" THEN @ \o ids ELSE @,
              !.hasNextPage = NextHasNextPage(more),
              !.endCursor = [conn |-> f.fn, ent |-> f.ent, page |-> f.page + 1],
              !.page = f.page + 1]

\* A walk frame after it took a page in hand.
WithPage(f, n, more) ==
    [f EXCEPT !.nodes = IF Handler(f.fn) = "append" THEN <<>> ELSE NewIds(n),
              !.acc = IF Handler(f.fn) = "append" THEN @ \o NewIds(n) ELSE @,
              !.hasNextPage = NextHasNextPage(more),
              !.endCursor = [conn |-> f.fn, ent |-> f.ent, page |-> f.page + 1],
              !.page = f.page + 1]

\* The arguments of a Save call made for node n from frame f.
SaveEvent(call, f, n) ==
    LET e == [Event(call) EXCEPT !.ent = n, !.owner = args.owner,
                                 !.name = args.name]
    IN CASE call = "SaveRepository" ->
                [e EXCEPT !.owner = src[n].login, !.l1 = f.topics]
         [] call \in {"SaveIssue", "SavePullRequest"} ->
                [e EXCEPT !.number = src[n].num, !.l1 = f.assignees,
                          !.l2 = f.labels]
         [] call \in {"SaveIssueComment", "SavePullRequestComment"} ->
                [e EXCEPT !.number = src[f.ent].num]
         [] call = "SavePullRequestReview" ->
                [e EXCEPT !.number = src[src[n].parent].num,
                          !.review = src[n].num]
         [] call = "SavePullRequestReviewComment" ->
                [e EXCEPT !.number = src[src[f.ent].parent].num,
                          !.review = src[f.ent].num]
         [] OTHER -> [e EXCEPT !.owner = "", !.name = ""]

\* The errors a storer call may return.
SinkResults(e) ==
    IF sink = "Mem" THEN {MemCall(Repos, e).err} ELSE {NoError, SinkError}

SinkEffect(e) == IF sink = "Mem" THEN MemCall(Repos, e).Repos ELSE Repos

\* A walk calls process for the next node of the page in hand.
ProcessNode(stk) ==
    LET f == stk[Len(stk)] IN
    SubSeq(stk, 1, Len(stk) - 1)
        \o <<[f EXCEPT !.nodes = Tail(@)], Frame(Handler(f.fn), Head(f.nodes))>>

\* A walk whose connection is exhausted returns its list to the caller.
ReturnWalk(stk) ==
    LET w == stk[Len(stk)]
        b == stk[Len(stk) - 1]
        kind == NodeKind(w.fn)
    IN Append(SubSeq(stk, 1, Len(stk) - 2),
              [b EXCEPT !.pc = @ + 1,
                        !.assignees = IF kind = "user" THEN w.acc ELSE @,
                        !.labels = IF kind = "label" THEN w.acc ELSE @,
                        !.topics = IF kind = "topic" THEN w.acc ELSE @])

\* A body that ran all its statements returns nil.
ReturnBody(stk) == SubSeq(stk, 1, Len(stk) - 1)

\* The code runs on from stk up to its next call or its next read of an
\* embedded page.
RECURSIVE Settle(_)
SettleFrom(stk) ==
    IF stk = <<>> THEN stk
    ELSE LET f == stk[Len(stk)] IN
         IF f.fn \in Walks
         THEN IF f.nodes # <<>>
              THEN IF Handler(f.fn) \in Bodies THEN Settle(ProcessNode(stk))
                   ELSE stk
              ELSE IF ShouldFetch(f) \/ f.hasNextPage THEN stk
                   ELSE Settle(ReturnWalk(stk))
         ELSE IF f.pc > Len(Steps(f.fn)) THEN Settle(ReturnBody(stk))
              ELSE stk

\* The stack is computed once and then run on from.
Settle(s) == CHOOSE r \in {SettleFrom(stk) : stk \in {s}} : TRUE

\* The run goes on with stack stk; with nothing left to run it returns nil.
Continue(stk) ==
    /\ stack' = Settle(stk)
    /\ pc' = IF Settle(stk) = <<>> THEN "defer" ELSE "run"
    /\ err' = NoError

\* An error returned up to DownloadRepository / DownloadOrganization.
Abort(e) ==
    /\ stack' = <<>>
    /\ err' = e
    /\ pc' = "defer"

(* ---------------------------------------------------------------- steps *)
\* A Downloader as its constructor leaves it, built with storer s.
InitWith(s) ==
    /\ pc = "idle"
    /\ op = ""
    /\ sink = s
    /\ args = [owner |-> "", name |-> "", version |-> 0]
    /\ err = NoError
    /\ ret = NoError
    /\ stack = <<>>
    /\ calls = <<>>
    /\ pages = <<>>
    /\ src = <<>>
    /\ budget = MaxSize
    /\ Repos = EmptyMap
    /\ reposAtBegin = EmptyMap
    /\ ApartInit

\* NewDownloader, NewStdoutDownloader: the storer is whatever implements the
\* interface; the downloader knows only that each method may return an error.
Init == InitWith("storer")

\* NewMemDownloader: the storer is a store.Mem with an empty Repos map.
InitMem == InitWith("Mem")

\* Mutant: the entry point goes straight to Begin and never sets the version.
EnterNoVersion(o, owner) ==
    /\ pc = "idle"
    /\ calls = <<>>
    /\ op' = o
    /\ args' = [owner |-> owner, name |-> "n", version |-> 1]
    /\ calls' = calls
    /\ pc' = "begin"
    /\ UNCHANGED apart
    /\ UNCHANGED <<sink, err, ret, stack, pages, src, budget, Repos,
                   reposAtBegin>>

\* d.storer.Version(version), the first statement of both entry points.
\* A behaviour is one download run or a sequence of SetCurrent and Cleanup
\* calls on a new Downloader.
Enter(o, owner) ==
    /\ pc = "idle"
    /\ calls = <<>>
    /\ op' = o
    /\ args' = [owner |-> owner, name |-> "n", version |-> 1]
    /\ calls' = Append(calls, [Event("Version") EXCEPT
                                  !.version = args'.version])
    /\ pc' = "begin"
    /\ UNCHANGED apart
    /\ UNCHANGED <<sink, err, ret, stack, pages, src, budget, Repos,
                   reposAtBegin>>

DownloadRepository == Enter("DownloadRepository", "o")

DownloadOrganization == Enter("DownloadOrganization", "")

\* Mutant: the deferred function is registered before Begin is called.
BeginAfterDefer ==
    /\ pc = "begin"
    /\ \E r \in SinkResults(Event("Begin")) :
          /\ calls' = Append(calls, [Event("Begin") EXCEPT !.ok = ~Failed(r)])
          /\ err' = r
          /\ IF Failed(r)
             THEN pc' = "defer" /\ ret' = ret
             ELSE pc' = "query" /\ ret' = ret
    /\ reposAtBegin' = Repos
    /\ UNCHANGED apart
    /\ UNCHANGED <<op, sink, args, stack, pages, src, budget, Repos>>

\* err = d.storer.Begin(); on error return without deferring anything.
Begin ==
    /\ pc = "begin"
    /\ \E r \in SinkResults(Event("Begin")) :
          /\ calls' = Append(calls, [Event("Begin") EXCEPT !.ok = ~Failed(r)])
          /\ err' = r
          /\ IF Failed(r)
             THEN pc' = "done" /\ ret' = r
             ELSE pc' = "query" /\ ret' = ret
    /\ reposAtBegin' = Repos
    /\ UNCHANGED apart
    /\ UNCHANGED <<op, sink, args, stack, pages, src, budget, Repos>>

\* err = d.client.Query(ctx, &q, variables): the root query.
Query ==
    /\ pc = "query"
    /\ \E ok \in BOOLEAN :
       \E login \in IF ok /\ op = "DownloadRepository" /\ sink = "Mem"
                    THEN Owners ELSE {args.owner} :
          /\ calls' = Append(calls, [Event("Query") EXCEPT !.ok = ok, !.conn = op])
          /\ IF ok
             THEN /\ src' = Append(src,
                       IF op = "DownloadRepository"
                       THEN Node("repository", 0, 0, login)
                       ELSE Node("organization", 0, 0, ""))
                  /\ Continue(<<Frame(op, Len(src) + 1)>>)
             ELSE /\ Abort(QueryError)
                  /\ src' = src
    /\ UNCHANGED apart
    /\ UNCHANGED <<op, sink, args, ret, pages, budget, Repos, reposAtBegin>>

\* A body reaches a call of a walk: the walk takes the page embedded in the
\* parent's response in hand.
EnterWalk ==
    /\ pc = "run"
    /\ Top.fn \in Bodies
    /\ Top.pc <= Len(Steps(Top.fn))
    /\ Steps(Top.fn)[Top.pc] \in Walks
    /\ LET fn == Steps(Top.fn)[Top.pc] IN
       \E n \in 0..MaxPageLen, more \in BOOLEAN :
          /\ Cost(n, more) <= budget
          /\ \E nums \in PageNumbers(fn, Top.ent, n) :
                /\ calls' = calls
                /\ Deliver(fn, Top.ent, n, more, nums, FALSE)
                /\ Continue(Append(stack,
                                   WithPage(Frame(fn, Top.ent), n, more)))
    /\ UNCHANGED apart
    /\ UNCHANGED <<op, sink, args, ret, Repos, reposAtBegin>>

\* d.client.Query inside `for hasNextPage`.
Fetch ==
    /\ pc = "run"
    /\ Top.fn \in Walks
    /\ ShouldFetch(Top)
    /\ LET e == [Event("fetch") EXCEPT !.conn = Top.fn, !.ent = FetchId(Top),
                                       !.cursor = FetchCursor(Top),
                                       !.size = PageSize(Top.fn)]
       IN \/ /\ calls' = Append(calls, [e EXCEPT !.ok = FALSE])
             /\ Abort(QueryError)
             /\ UNCHANGED <<pages, src, budget>>
          \/ \E n \in 0..MaxPageLen, more \in BOOLEAN :
                /\ Cost(n, more) <= budget
                /\ \E nums \in PageNumbers(Top.fn, Top.ent, n) :
                      /\ calls' = Append(calls, e)
                      /\ Deliver(Top.fn, Top.ent, n, more, nums, TRUE)
                      /\ Continue(Append(Below, WithPage(Top, n, more)))
    /\ UNCHANGED apart
    /\ UNCHANGED <<op, sink, args, ret, Repos, reposAtBegin>>

\* One storer call e made from the top frame; next is the frame on success.
Save(e, next) ==
    /\ \E r \in SinkResults(e) :
          /\ calls' = Append(calls, [e EXCEPT !.ok = (r = NoError)])
          /\ IF Failed(r)
             THEN Abort(r)
             ELSE Continue(Append(Below, next))
    /\ Repos' = SinkEffect(e)
    /\ UNCHANGED apart
    /\ UNCHANGED <<op, sink, args, ret, pages, src, budget, reposAtBegin>>

\* A walk saves the next node of the page in hand.
SaveNode ==
    /\ pc = "run"
    /\ Top.fn \in Walks
    /\ Top.nodes # <<>>
    /\ Handler(Top.fn) \notin Bodies \cup {"append"}
    /\ Save(SaveEvent(Handler(Top.fn), Top, Head(Top.nodes)),
            [Top EXCEPT !.nodes = Tail(@)])

\* A body reaches a Save call for its own entity.
SaveStep ==
    /\ pc = "run"
    /\ Top.fn \in Bodies
    /\ Top.pc <= Len(Steps(Top.fn))
    /\ Steps(Top.fn)[Top.pc] \notin Walks
    /\ Save(SaveEvent(Steps(Top.fn)[Top.pc], Top, Top.ent),
            [Top EXCEPT !.pc = @ + 1])

\* The deferred function: Rollback or Commit, its result dropped.
RunDeferred ==
    /\ pc = "defer"
    /\ LET e == Event(Deferred(err)) IN
       \E r \in SinkResults(e) :
          /\ calls' = Append(calls, [e EXCEPT !.ok = (r = NoError)])
          /\ Repos' = SinkEffect(e)
    /\ ret' = err
    /\ pc' = "done"
    /\ UNCHANGED apart
    /\ UNCHANGED <<op, sink, args, err, stack, pages, src, budget, reposAtBegin>>

\* SetCurrent and Cleanup: one call on the storer, its error returned.
Admin(o, call) ==
    /\ pc = "idle"
    /\ Len(calls) < MaxCalls
    /\ \E v \in Versions :
       LET e == [Event(call) EXCEPT !.version = v] IN
       \E r \in SinkResults(e) :
          /\ op' = o
          /\ args' = [args EXCEPT !.version = v]
          /\ calls' = Append(calls, [e EXCEPT !.ok = (r = NoError)])
          /\ err' = r
          /\ ret' = r
          /\ Repos' = SinkEffect(e)
    /\ UNCHANGED apart
    /\ UNCHANGED <<pc, sink, stack, pages, src, budget, reposAtBegin>>

SetCurrent == Admin("SetCurrent", "SetActiveVersion")

Cleanup == Admin("Cleanup", "Cleanup")

Next ==
    \/ SetCurrent
    \/ Cleanup
    \/ DownloadRepository
    \/ DownloadOrganization
    \/ Begin
    \/ Query
    \/ EnterWalk
    \/ Fetch
    \/ SaveNode
    \/ SaveStep
    \/ RunDeferred

Spec == Init /\ [][Next]_vars

SpecMem == InitMem /\ [][Next]_vars

\* One download run against a source that holds at most MaxLiveSize nodes and
\* further pages.
InitLive ==
    /\ pc = "idle"
    /\ op = ""
    /\ sink = "storer"
    /\ args = [owner |-> "", name |-> "", version |-> 0]
    /\ err = NoError
    /\ ret = NoError
    /\ stack = <<>>
    /\ calls = <<>>
    /\ pages = <<>>
    /\ src = <<>>
    /\ budget = MaxLiveSize
    /\ Repos = EmptyMap
    /\ reposAtBegin = EmptyMap
    /\ ApartInit

NextLive ==
    \/ DownloadRepository
    \/ DownloadOrganization
    \/ Begin
    \/ Query
    \/ EnterWalk
    \/ Fetch
    \/ SaveNode
    \/ SaveStep
    \/ RunDeferred

\* A run keeps executing: d.client.Query and every storer call return, and
\* the goroutine of the run takes its next step.
SpecLive == InitLive /\ [][NextLive]_vars /\ WF_vars(NextLive)

(* ------------------------------------------- store.Mem called directly *)
\* A call on a Mem with the arguments a caller passes: one repository
\* ("o", "n"), one pull request number, one review id, one payload.
StoreEvent(call) ==
    [Event(call) EXCEPT !.owner = "o", !.name = "n", !.ent = 1,
                        !.number = IF call \in {"SavePullRequest",
                                                "SavePullRequestComment",
                                                "SavePullRequestReview",
                                                "SavePullRequestReviewComment"}
                                   THEN 1 ELSE 0,
                        !.review = IF call \in {"SavePullRequestReview",
                                                "SavePullRequestReviewComment"}
                                   THEN 1 ELSE 0]

\* The methods of Mem that write to Repos.
MemSaves == {"SaveRepository", "SavePullRequest", "SavePullRequestComment",
             "SavePullRequestReview", "SavePullRequestReviewComment"}

\* One method of Mem runs from its first statement to its return; the Save
\* methods hold m.mu meanwhile.
Direct(e) ==
    /\ pc = "idle"
    /\ sink = "Mem"
    /\ Len(calls) < MaxCalls
    /\ calls' = Append(calls, [e EXCEPT !.ok = (MemCall(Repos, e).err = NoError)])
    /\ err' = MemCall(Repos, e).err
    /\ Repos' = MemCall(Repos, e).Repos
    /\ UNCHANGED apart
    /\ UNCHANGED <<pc, op, sink, args, ret, stack, pages, src, budget,
                   reposAtBegin>>

StoreVersion ==
    \E v \in Versions : Direct([StoreEvent("Version") EXCEPT !.version = v])

StoreSave == \E c \in MemSaves : Direct(StoreEvent(c))

StoreSetActiveVersion ==
    \E v \in Versions :
        Direct([StoreEvent("SetActiveVersion") EXCEPT !.version = v])

StoreCleanup ==
    \E v \in Versions : Direct([StoreEvent("Cleanup") EXCEPT !.version = v])

NextStore ==
    \/ StoreVersion
    \/ StoreSave
    \/ StoreSetActiveVersion
    \/ StoreCleanup

SpecStore == InitMem /\ [][NextStore]_vars

(* --------------------------------- store.Mem called by several goroutines *)
\* The download variables a step of another program leaves alone.
run == <<pc, op, sink, args, err, ret, stack, pages, src, budget, reposAtBegin>>

\* Mutant: the method does not take the mutex (the "TODO mutex" of the type).
MuLockAbsent(t) == TRUE

\* m.mu.Lock() returns once no caller holds the mutex.
MuLock(t) == mu = 0

\* The lookup a Save method makes under the mutex, and the copy of the entry
\* it keeps in a local (tmpPR, tmpReview).
MemFind(R, e) ==
    CASE e.call = "SaveRepository" -> [ok |-> TRUE, tmp |-> 0]
      [] e.call = "SavePullRequest" ->
             [ok |-> HasRepo(R, e.owner, e.name), tmp |-> 0]
      [] e.call \in {"SavePullRequestComment", "SavePullRequestReview"} ->
             IF HasPR(R, e.owner, e.name, e.number)
             THEN [ok |-> TRUE, tmp |-> R[e.owner][e.name].PRs[e.number]]
             ELSE [ok |-> FALSE, tmp |-> 0]
      [] e.call = "SavePullRequestReviewComment" ->
             IF HasReview(R, e.owner, e.name, e.number, e.review)
             THEN [ok |-> TRUE,
                   tmp |-> R[e.owner][e.name].PRs[e.number].Reviews[e.review]]
             ELSE [ok |-> FALSE, tmp |-> 0]

\* The assignment to m.Repos[...] that ends a Save method, made with the
\* local copy tmp.
MemAssign(R, e, tmp) ==
    CASE e.call = "SaveRepository" -> MemSaveRepository(R, e).Repos
      [] e.call = "SavePullRequest" -> MemSavePullRequest(R, e).Repos
      [] e.call = "SavePullRequestComment" ->
             [R EXCEPT ![e.owner][e.name].PRs =
                 Put(@, e.number, [tmp EXCEPT !.Comments = Append(@, e.ent)])]
      [] e.call = "SavePullRequestReview" ->
             [R EXCEPT ![e.owner][e.name].PRs =
                 Put(@, e.number,
                     [tmp EXCEPT !.Reviews =
                         Put(@, e.review, [PullRequestReview |-> e.ent,
                                           Comments |-> <<>>])])]
      [] e.call = "SavePullRequestReviewComment" ->
             [R EXCEPT ![e.owner][e.name].PRs[e.number].Reviews =
                 Put(@, e.review, [tmp EXCEPT !.Comments = Append(@, e.ent)])]

Idle == [pc |-> "idle", e |-> Event(""), tmp |-> 0]

InProgress == {t \in DOMAIN callers : callers[t].pc # "idle"}

\* Caller t calls a Save method of the Mem.
MemEnter(t) ==
    /\ callers[t].pc = "idle"
    /\ Len(calls) + Cardinality(InProgress) < MaxCalls
    /\ \E c \in MemSaves :
          callers' = [callers EXCEPT ![t] =
              [Idle EXCEPT !.pc = "lock", !.e = StoreEvent(c)]]
    /\ UNCHANGED <<mu, calls, Repos>>
    /\ UNCHANGED run
    /\ UNCHANGED bridgeVars

\* m.mu.Lock()
MemLock(t) ==
    /\ callers[t].pc = "lock"
    /\ MuLock(t)
    /\ mu' = t
    /\ callers' = [callers EXCEPT ![t].pc = "find"]
    /\ UNCHANGED <<calls, Repos>>
    /\ UNCHANGED run
    /\ UNCHANGED bridgeVars

\* The lookup of the parent entry; `return NotFound` when it is missing.
MemLookup(t) ==
    /\ callers[t].pc = "find"
    /\ LET f == MemFind(Repos, callers[t].e) IN
       callers' = [callers EXCEPT
                      ![t].pc = IF f.ok THEN "assign" ELSE "unlock",
                      ![t].tmp = f.tmp,
                      ![t].e.ok = f.ok]
    /\ UNCHANGED <<mu, calls, Repos>>
    /\ UNCHANGED run
    /\ UNCHANGED bridgeVars

\* The assignment to m.Repos[...]; `return nil`.
MemStore(t) ==
    /\ callers[t].pc = "assign"
    /\ Repos' = MemAssign(Repos, callers[t].e, callers[t].tmp)
    /\ callers' = [callers EXCEPT ![t].pc = "unlock"]
    /\ UNCHANGED <<mu, calls>>
    /\ UNCHANGED run
    /\ UNCHANGED bridgeVars

\* defer m.mu.Unlock(): the method returns.
MemUnlock(t) ==
    /\ callers[t].pc = "unlock"
    /\ mu' = 0
    /\ calls' = Append(calls, callers[t].e)
    /\ callers' = [callers EXCEPT ![t] = Idle]
    /\ Repos' = Repos
    /\ UNCHANGED run
    /\ UNCHANGED bridgeVars

\* A Mem with an empty Repos map shared by MaxCallers goroutines.
InitConc ==
    /\ pc = "idle"
    /\ op = ""
    /\ sink = "Mem"
    /\ args = [owner |-> "", name |-> "", version |-> 0]
    /\ err = NoError
    /\ ret = NoError
    /\ stack = <<>>
    /\ calls = <<>>
    /\ pages = <<>>
    /\ src = <<>>
    /\ budget = 0
    /\ Repos = EmptyMap
    /\ reposAtBegin = EmptyMap
    /\ mu = 0
    /\ callers = [t \in 1..MaxCallers |-> Idle]
    /\ bridge = BridgeOff
    /\ dest = <<>>

NextConc ==
    \E t \in 1..MaxCallers :
        \/ MemEnter(t)
        \/ MemLock(t)
        \/ MemLookup(t)
        \/ MemStore(t)
        \/ MemUnlock(t)

SpecConc == InitConc /\ [][NextConc]_vars

(* ------------------------------------------- the bridge: migrate command *)
\* Entries a snapshot handed to the bridge holds at most, besides the
\* repository.
MaxItems == 4

PRNumbers == {1, 2}
PRStates == {"OPEN", "CLOSED", "MERGED"}
ReviewIds == {1, 2}

\* c.GithubRepoOwner, c.GithubRepoName
GithubRepoOwner == "o"
GithubRepoName == "n"

\* A node of the snapshot: its id and, for a pull request, its State.
Entity(id, st) == [Id |-> id, State |-> st]

\* The Save calls that add one entry to the snapshot R; a comment is named
\* by its place in its list.
FillEvents(R) ==
    LET ev(c, n, r) == [Event(c) EXCEPT !.owner = GithubRepoOwner,
                                        !.name = GithubRepoName,
                                        !.number = n, !.review = r]
    IN {[ev("SavePullRequest", n, 0) EXCEPT !.ent = Entity(n, st)] :
            n \in PRNumbers, st \in PRStates}
       \cup {[ev("SavePullRequestComment", n, 0) EXCEPT
                 !.ent = Entity(Len(R[GithubRepoOwner][GithubRepoName].PRs[n]
                                        .Comments) + 1, "")] :
               n \in {x \in PRNumbers :
                         HasPR(R, GithubRepoOwner, GithubRepoName, x)}}
       \cup {[ev("SavePullRequestReview", n, r) EXCEPT !.ent = Entity(r, "")] :
               n \in PRNumbers, r \in ReviewIds}
       \cup {[ev("SavePullRequestReviewComment", n[1], n[2]) EXCEPT
                 !.ent = Entity(Len(R[GithubRepoOwner][GithubRepoName].PRs[n[1]]
                                        .Reviews[n[2]].Comments) + 1, "")] :
               n \in {x \in PRNumbers \X ReviewIds :
                         HasReview(R, GithubRepoOwner, GithubRepoName,
                                   x[1], x[2])}}

\* The Repos maps that SaveRepository followed by at most k further Save
\* calls leave in a Mem.
RECURSIVE Filled(_)
Filled(k) ==
    IF k = 0
    THEN {EmptyMap}
         \cup {MemSaveRepository(EmptyMap,
                   [Event("SaveRepository") EXCEPT !.owner = o,
                                                   !.name = GithubRepoName,
                                                   !.ent = Entity(1, "")]).Repos :
                 o \in Owners}
    ELSE LET S == Filled(k - 1)
         IN S \cup UNION {{MemCall(R, e).Repos : e \in FillEvents(R)} : R \in S}

Snapshots == Filled(MaxItems)

\* repo.PRs of the repository the bridge was asked to migrate.
BridgePRs == Repos[GithubRepoOwner][GithubRepoName].PRs

\* Mutant: only closed pull requests are passed over.
SkipsClosed(pr) == pr.PullRequest.State = "CLOSED"

\* if pr.PullRequest.State != "OPEN" { continue }
Skips(pr) == pr.PullRequest.State # "OPEN"

\* Parent: &CreatePullRequestCommentParentParams{Id: reviewResp.Id}
NestedParent(b) == b.reviewResp

\* Mutant: migrate returns the error of migratePR (the commented-out return).
AfterFailedPRReturns(b, e) == [b EXCEPT !.pc = "returned", !.ret = e]

\* log.Errorf(err, "failed to migrate PR"): the loop goes on.
AfterFailedPR(b, e) == [b EXCEPT !.pc = "range"]

\* Mutant: the review threads are created before the top-level comments.
MigratePRReviewsFirst(b, id) ==
    [b EXCEPT !.pc = "reviews", !.bitPRId = id,
              !.comments = <<>>, !.reviews = DOMAIN BridgePRs[b.pr].Reviews]

\* migratePR after createPR returned id: createComments comes next, then
\* createReviewComments.
MigratePR(b, id) ==
    [b EXCEPT !.pc = "comments", !.bitPRId = id,
              !.comments = BridgePRs[b.pr].Comments,
              !.reviews = DOMAIN BridgePRs[b.pr].Reviews]

\* The bridge runs on up to its next call on the destination or its next
\* pull request: loops that have nothing left end, migratePR returns nil.
RECURSIVE Advance(_)
Advance(b) ==
    IF b.pc = "comments" /\ b.comments = <<>>
    THEN Advance([b EXCEPT !.pc = "reviews"])
    ELSE IF b.pc = "nested" /\ b.nested = <<>>
    THEN Advance([b EXCEPT !.pc = "reviews"])
    ELSE IF b.pc = "reviews" /\ b.reviews = {}
    THEN [b EXCEPT !.pc = "range"]
    ELSE b

DestError == "destination error"
NoRepoError == "failed to obtain repo"

\* A call on the destination: for pull request prId (0 for CreatePullRequest),
\* with Text made from the source entity text and Parent parent.
DestCall(call, prId, text, parent) ==
    [call |-> call, pr |-> bridge.pr, prId |-> prId, text |-> text,
     parent |-> parent, ok |-> TRUE, id |-> Len(dest) + 1]

\* The destination answers call d: with a new id, or with an error.
Answer(d, onOk, onError) ==
    \/ /\ dest' = Append(dest, d)
       /\ bridge' = onOk
    \/ /\ dest' = Append(dest, [d EXCEPT !.ok = FALSE, !.id = 0])
       /\ bridge' = onError

\* migrate, up to the loop over repo.PRs.
Migrate ==
    /\ bridge.pc = "migrate"
    /\ bridge' = IF HasRepo(Repos, GithubRepoOwner, GithubRepoName)
                 THEN [bridge EXCEPT !.pc = "range", !.todo = DOMAIN BridgePRs]
                 ELSE [bridge EXCEPT !.pc = "returned", !.ret = NoRepoError]
    /\ UNCHANGED <<dest, mu, callers, calls, Repos>>
    /\ UNCHANGED run

\* for prId, pr := range repo.PRs: the next pull request, in the order the
\* map happens to yield; return nil after the last.
RangePRs ==
    /\ bridge.pc = "range"
    /\ IF bridge.todo = {}
       THEN bridge' = [bridge EXCEPT !.pc = "returned", !.ret = NoError]
       ELSE \E p \in bridge.todo :
               bridge' = [bridge EXCEPT
                             !.todo = @ \ {p},
                             !.pr = p,
                             !.pc = IF Skips(BridgePRs[p])
                                    THEN "range" ELSE "createPR"]
    /\ UNCHANGED <<dest, mu, callers, calls, Repos>>
    /\ UNCHANGED run

\* createPR: b.CreatePullRequest
CreatePR ==
    /\ bridge.pc = "createPR"
    /\ Answer(DestCall("CreatePullRequest", 0,
                       [kind |-> "pullRequest",
                        of |-> BridgePRs[bridge.pr].PullRequest], 0),
              Advance(MigratePR(bridge, Len(dest) + 1)),
              AfterFailedPR(bridge, DestError))
    /\ UNCHANGED <<mu, callers, calls, Repos>>
    /\ UNCHANGED run

\* createComments: b.CreatePullRequestComment for the next top-level comment.
CreateComment ==
    /\ bridge.pc = "comments"
    /\ Answer(DestCall("CreatePullRequestComment", bridge.bitPRId,
                       [kind |-> "comment", of |-> Head(bridge.comments)], 0),
              Advance([bridge EXCEPT !.comments = Tail(@)]),
              AfterFailedPR(bridge, DestError))
    /\ UNCHANGED <<mu, callers, calls, Repos>>
    /\ UNCHANGED run

\* createReviewComments: b.CreatePullRequestComment for the next review, in
\* the order the map of reviews happens to yield.
CreateReview ==
    /\ bridge.pc = "reviews"
    /\ \E r \in bridge.reviews :
          Answer(DestCall("CreatePullRequestComment", bridge.bitPRId,
                          [kind |-> "review",
                           of |-> BridgePRs[bridge.pr].Reviews[r]
                                      .PullRequestReview], 0),
                 Advance([bridge EXCEPT
                             !.pc = "nested",
                             !.reviews = @ \ {r},
                             !.reviewResp = Len(dest) + 1,
                             !.nested = BridgePRs[bridge.pr].Reviews[r].Comments]),
                 AfterFailedPR(bridge, DestError))
    /\ UNCHANGED <<mu, callers, calls, Repos>>
    /\ UNCHANGED run

\* createReviewComments: b.CreatePullRequestComment for the next comment of
\* the review, with the review's comment as Parent.
CreateNested ==
    /\ bridge.pc = "nested"
    /\ Answer(DestCall("CreatePullRequestComment", bridge.bitPRId,
                       [kind |-> "reviewComment", of |-> Head(bridge.nested)],
                       NestedParent(bridge)),
              Advance([bridge EXCEPT !.nested = Tail(@)]),
              AfterFailedPR(bridge, DestError))
    /\ UNCHANGED <<mu, callers, calls, Repos>>
    /\ UNCHANGED run

\* Execute has obtained a Mem from GetMemStore and calls migrate with it.
InitBridge ==
    /\ pc = "idle"
    /\ op = ""
    /\ sink = "Mem"
    /\ args = [owner |-> "", name |-> "", version |-> 0]
    /\ err = NoError
    /\ ret = NoError
    /\ stack = <<>>
    /\ calls = <<>>
    /\ pages = <<>>
    /\ src = <<>>
    /\ budget = 0
    /\ Repos \in Snapshots
    /\ reposAtBegin = EmptyMap
    /\ mu = 0
    /\ callers = <<>>
    /\ bridge = [BridgeOff EXCEPT !.pc = "migrate", !.m = "Mem"]
    /\ dest = <<>>

NextBridge ==
    \/ Migrate
    \/ RangePRs
    \/ CreatePR
    \/ CreateComment
    \/ CreateReview
    \/ CreateNested

SpecBridge == InitBridge /\ [][NextBridge]_vars

(* ----------------------------------------------------------- GetMemStore *)
\* d, err := NewMemDownloader(client); d.DownloadRepository(ctx, owner,
\* name, 0): the run of Execute up to the call of migrate.
GetMemStore ==
    /\ pc = "idle"
    /\ calls = <<>>
    /\ bridge.pc = "off"
    /\ op' = "DownloadRepository"
    /\ args' = [owner |-> GithubRepoOwner, name |-> GithubRepoName,
                version |-> 0]
    /\ calls' = Append(calls, [Event("Version") EXCEPT
                                  !.version = args'.version])
    /\ pc' = "begin"
    /\ bridge' = [bridge EXCEPT !.pc = "GetMemStore"]
    /\ UNCHANGED <<mu, callers, dest>>
    /\ UNCHANGED <<sink, err, ret, stack, pages, src, budget, Repos,
                   reposAtBegin>>

\* Mutant: the store is returned whatever DownloadRepository returned.
GetMemStoreKeepsStore(e) == [m |-> "Mem", err |-> e]

\* if err := d.DownloadRepository(...); err != nil { return nil, err };
\* return memStore, nil
GetMemStoreResult(e) ==
    IF Failed(e) THEN [m |-> "nil", err |-> e] ELSE [m |-> "Mem", err |-> NoError]

\* GetMemStore returns to Execute, which returns the error or goes on to
\* migrate(m).
GetMemStoreReturn ==
    /\ pc = "done"
    /\ bridge.pc = "GetMemStore"
    /\ LET g == GetMemStoreResult(ret) IN
       bridge' = [bridge EXCEPT
                     !.m = g.m,
                     !.ret = g.err,
                     !.pc = IF Failed(g.err) THEN "returned" ELSE "migrate"]
    /\ UNCHANGED <<mu, callers, dest, calls, Repos>>
    /\ UNCHANGED run

NextGet ==
    \/ GetMemStore
    \/ Begin
    \/ Query
    \/ EnterWalk
    \/ Fetch
    \/ SaveNode
    \/ SaveStep
    \/ RunDeferred
    \/ GetMemStoreReturn

SpecGet == InitMem /\ [][NextGet]_vars

(* ------------------------------------------------- reading the call log *)
SaveCalls == {"SaveRepository", "SaveIssue", "SaveIssueComment",
              "SavePullRequest", "SavePullRequestComment",
              "SavePullRequestReview", "SavePullRequestReviewComment",
              "SaveOrganization", "SaveUser"}

Calls == 1..Len(calls)

\* The call just made.  Every call is the latest one in the state that follows
\* it, and the logs only grow (LogsGrow): what holds of the latest call in
\* every reachable state holds of every call of every run.
Last == Len(calls)

IsSave(i) == calls[i].call \in SaveCalls
IsFetch(i) == calls[i].call = "fetch"
IsCall(i, c) == calls[i].call = c

Parent(n) == IF n = 0 THEN 0 ELSE src[n].parent

\* Node m is n or lies below n in the source's graph.
InSubtree(m, n) ==
    /\ m # 0
    /\ \/ m = n
       \/ Parent(m) = n
       \/ Parent(Parent(m)) = n
       \/ Parent(Parent(Parent(m))) = n

\* The node a call is about: the node saved, or the node whose connection
\* the query pages through.
Subject(i) == calls[i].ent

\* The issue or pull request in whose subtree node n lies; 0 if none.
RECURSIVE TopEntity(_)
TopEntity(n) ==
    IF n = 0 THEN 0
    ELSE IF src[n].kind \in {"issue", "pullRequest"} THEN n
    ELSE TopEntity(src[n].parent)

Done == pc = "done"
Succeeded == pc = "done" /\ ret = NoError

IsPrefix(a, b) == Len(a) <= Len(b) /\ SubSeq(b, 1, Len(a)) = a

\* calls, pages and src are logs: a step appends to them or leaves them.
LogsGrow ==
    [][/\ IsPrefix(calls, calls')
       /\ IsPrefix(pages, pages')
       /\ IsPrefix(src, src')]_vars

(* ----------------------------------------------------------------- C1 *)
\* Call j, if it saves a child, comes after the Save call of its parent.
ParentSavedBefore(j) ==
    LET e == calls[j]
        parent == Parent(e.ent)
    IN CASE e.call \in {"SaveIssue", "SavePullRequest"} ->
              \E i \in 1..(j - 1) :
                  /\ IsCall(i, "SaveRepository")
                  /\ calls[i].ent = parent
         [] e.call = "SaveIssueComment" ->
              \E i \in 1..(j - 1) :
                  /\ IsCall(i, "SaveIssue")
                  /\ calls[i].ent = parent
                  /\ calls[i].number = e.number
         [] e.call \in {"SavePullRequestComment", "SavePullRequestReview"} ->
              \E i \in 1..(j - 1) :
                  /\ IsCall(i, "SavePullRequest")
                  /\ calls[i].ent = parent
                  /\ calls[i].number = e.number
         [] e.call = "SavePullRequestReviewComment" ->
              \E i \in 1..(j - 1) :
                  /\ IsCall(i, "SavePullRequestReview")
                  /\ calls[i].ent = parent
                  /\ calls[i].number = e.number
                  /\ calls[i].review = e.review
         [] OTHER -> TRUE

\* C1: in every run of DownloadRepository the sink receives the Save call of
\* a parent (repository, issue, pull request, review) strictly before the
\* Save call of any child that references it.
C1_ParentBeforeChild == calls # <<>> => ParentSavedBefore(Last)

\* A run that saved a review comment, three levels below the repository.
C1_Witness ==
    \E j \in Calls :
        /\ IsCall(j, "SavePullRequestReviewComment")
        /\ calls[j].ok

(* ----------------------------------------------------------------- C2 *)
SaveFailed == \E i \in Calls : IsSave(i) /\ ~calls[i].ok
RolledBack == \E i \in Calls : IsCall(i, "Rollback")

\* C2: if a Save call fails during a DownloadRepository traversal, then once
\* Rollback was called the content of the sink is its content before Begin,
\* for every sink, the in-memory Mem included.
C2_RollbackRestores ==
    (op = "DownloadRepository" /\ sink = "Mem" /\ SaveFailed /\ RolledBack)
        => Repos = reposAtBegin

(* ----------------------------------------------------------------- C3 *)
Finals == {i \in Calls : calls[i].call \in {"Commit", "Rollback"}}
BeginSucceeded == \E i \in Calls : IsCall(i, "Begin") /\ calls[i].ok
AllSucceeded ==
    \A i \in Calls :
        (IsSave(i) \/ IsFetch(i) \/ IsCall(i, "Query")) => calls[i].ok

\* C3: in every run in which Begin succeeds exactly one of Commit and
\* Rollback is called, once, as the last sink call of the run: Commit when
\* the root query, every fetch and every Save succeeded, Rollback otherwise;
\* the run returns nil exactly when Commit was called.
C3_CommitXorRollback ==
    /\ Finals \subseteq {Len(calls)}
    /\ Finals # {} => Done
    /\ (Done /\ BeginSucceeded) =>
          /\ Finals = {Len(calls)}
          /\ IsCall(Len(calls), "Commit") <=> AllSucceeded
          /\ IsCall(Len(calls), "Rollback") <=> ~AllSucceeded
          /\ ret = NoError <=> IsCall(Len(calls), "Commit")

\* A run that ended in Rollback after a Save call failed below a pull request.
C3_Witness ==
    /\ Done
    /\ IsCall(Len(calls), "Rollback")
    /\ \E i \in Calls : IsCall(i, "SavePullRequestComment") /\ ~calls[i].ok

(* ----------------------------------------------------------------- C4 *)
\* C4: after the first failing Save call or failing fetch the run issues no
\* further Save call and no further fetch; the only sink call that follows
\* is Rollback.
C4_AbortOnFirstFailure ==
    \A i \in Calls :
        ((IsSave(i) \/ IsFetch(i)) /\ ~calls[i].ok) =>
            /\ Len(calls) <= i + 1
            /\ Len(calls) = i + 1 => IsCall(i + 1, "Rollback")
            /\ Done => Len(calls) = i + 1

\* A run whose Save of a review comment failed, and that is over.
C4_Witness ==
    /\ Done
    /\ \E i \in Calls :
          IsCall(i, "SavePullRequestReviewComment") /\ ~calls[i].ok

(* ----------------------------------------------------------------- C5 *)
\* C5: DownloadRepository and DownloadOrganization return a non-nil error
\* whenever a sink call they make (Begin, Save*, Commit, Rollback) or a fetch
\* returns an error.
C5_NoErrorDropped ==
    (Done /\ \E i \in Calls : ~calls[i].ok) => ret # NoError

(* ------------------------------------------------ reading the page log *)
\* The pages of connection fn of node ent read before call j was made.
PagesBefore(fn, ent, j) ==
    SelectSeq(pages, LAMBDA p : p.conn = fn /\ p.ent = ent /\ p.at < j)

PagesOf(fn, ent) == PagesBefore(fn, ent, Len(calls) + 1)

RECURSIVE Flatten(_)
Flatten(ps) ==
    IF ps = <<>> THEN <<>> ELSE Head(ps).nodes \o Flatten(Tail(ps))

\* The nodes of a connection, in the order the source delivered them.
ConnNodes(fn, ent) == Flatten(PagesOf(fn, ent))

Connections == {<<pages[i].conn, pages[i].ent>> : i \in 1..Len(pages)}

\* The last page read of the connection reported hasNextPage = false.
ExhaustedBefore(fn, ent, j) ==
    LET ps == PagesBefore(fn, ent, j)
    IN ps # <<>> /\ ~ps[Len(ps)].hasNextPage

Exhausted(fn, ent) == ExhaustedBefore(fn, ent, Len(calls) + 1)

\* The Save call made for each node of a connection; "" for the connections
\* whose nodes are handed over as one list.
SavedBy(fn) ==
    CASE fn = "downloadIssues" -> "SaveIssue"
      [] fn = "downloadIssueComments" -> "SaveIssueComment"
      [] fn = "downloadPullRequests" -> "SavePullRequest"
      [] fn = "downloadPullRequestComments" -> "SavePullRequestComment"
      [] fn = "downloadPullRequestReviews" -> "SavePullRequestReview"
      [] fn = "downloadReviewComments" -> "SavePullRequestReviewComment"
      [] fn = "downloadUsers" -> "SaveUser"
      [] OTHER -> ""

\* The nodes of connection fn of node ent for which a Save call was made, in
\* the order of the calls.
SavedNodes(fn, ent) ==
    LET s == SelectSeq(calls, LAMBDA e : /\ e.call = SavedBy(fn)
                                         /\ Parent(e.ent) = ent)
    IN [i \in 1..Len(s) |-> s[i].ent]

\* The lists that Save calls for node ent received for its connection fn.
ListsPassed(fn, ent) ==
    {IF NodeKind(fn) = "label" THEN calls[i].l2 ELSE calls[i].l1 :
       i \in {k \in Calls : /\ calls[k].call \in {"SaveRepository", "SaveIssue",
                                                  "SavePullRequest"}
                            /\ calls[k].ent = ent}}

\* Node n was delivered on page i.
InPage(n, i) == \E x \in 1..Len(pages[i].nodes) : pages[i].nodes[x] = n

(* ----------------------------------------------------------------- C6 *)
\* C6: for a connection whose source delivers its nodes across pages p1..pk
\* (the first embedded in the parent, the rest fetched, the last one reporting
\* hasNextPage = false), a successful walk handles exactly the nodes of
\* p1..pk, each once, in the order the pages and their nodes were returned.
C6_AllNodesInOrder ==
    /\ (calls # <<>> /\ IsSave(Last) /\ Parent(Subject(Last)) # 0) =>
          \E i \in 1..Len(pages) :
              /\ InPage(Subject(Last), i)
              /\ pages[i].ent = Parent(Subject(Last))
              /\ SavedBy(pages[i].conn) = calls[Last].call
              /\ IsPrefix(SavedNodes(pages[i].conn, pages[i].ent),
                          ConnNodes(pages[i].conn, pages[i].ent))
    /\ Succeeded =>
          \A c \in Connections :
              /\ Exhausted(c[1], c[2])
              /\ IF SavedBy(c[1]) # ""
                 THEN SavedNodes(c[1], c[2]) = ConnNodes(c[1], c[2])
                 ELSE ListsPassed(c[1], c[2]) = {ConnNodes(c[1], c[2])}

\* A successful run in which the comments of an issue or pull request came
\* on two pages, both with nodes.
C6_Witness ==
    /\ Succeeded
    /\ \E c \in Connections :
          /\ c[1] \in {"downloadIssueComments", "downloadPullRequestComments"}
          /\ Len(PagesOf(c[1], c[2])) = 2
          /\ \A i \in 1..2 : PagesOf(c[1], c[2])[i].nodes # <<>>
          /\ Len(SavedNodes(c[1], c[2])) >= 2

(* ----------------------------------------------------------------- C7 *)
FetchesOf(fn, ent) ==
    {i \in Calls : IsFetch(i) /\ calls[i].conn = fn /\ calls[i].ent = ent}

ContinuedPages(fn, ent) ==
    {i \in 1..Len(pages) : /\ pages[i].conn = fn
                           /\ pages[i].ent = ent
                           /\ pages[i].hasNextPage}

\* C7: the first page of a connection comes from the parent's response and is
\* not fetched again: every fetch passes a cursor that a page returned, and
\* the pages read are the embedded one and one per successful fetch.  A walk
\* issues as many fetches as pages report hasNextPage = true, hence none when
\* the first page reports false; a connection without nodes causes no Save.
C7_FetchPerContinuedPage ==
    /\ (calls # <<>> /\ IsFetch(Last)) =>
          LET fn == calls[Last].conn
              ent == calls[Last].ent
              before == PagesBefore(fn, ent, Last)
              fetches == FetchesOf(fn, ent)
          IN /\ before # <<>>
             /\ before[Len(before)].hasNextPage
             /\ ~before[1].fetched
             /\ calls[Last].cursor.page >= 1
             /\ Len(before) = Cardinality({i \in fetches : calls[i].ok /\ i < Last}) + 1
             /\ Cardinality(fetches) <=
                    Cardinality({i \in ContinuedPages(fn, ent) : pages[i].at < Last})
    /\ (calls # <<>> /\ IsSave(Last) /\ Parent(Subject(Last)) # 0) =>
          \E i \in 1..Len(pages) : InPage(Subject(Last), i)
    /\ Succeeded =>
          \A c \in Connections :
              /\ Cardinality(FetchesOf(c[1], c[2])) =
                     Cardinality(ContinuedPages(c[1], c[2]))
              /\ Len(PagesOf(c[1], c[2])) = 1 + Cardinality(FetchesOf(c[1], c[2]))
              /\ ConnNodes(c[1], c[2]) = <<>> => SavedNodes(c[1], c[2]) = <<>>

\* A successful run that saved a pull request whose first page of reviews
\* is empty and reports hasNextPage = false.
C7_Witness ==
    /\ Succeeded
    /\ \E c \in Connections :
          /\ c[1] = "downloadPullRequestReviews"
          /\ PagesOf(c[1], c[2]) = <<[conn |-> c[1], ent |-> c[2],
                                      nodes |-> <<>>, hasNextPage |-> FALSE,
                                      at |-> PagesOf(c[1], c[2])[1].at,
                                      fetched |-> FALSE]>>
          /\ \E i \in Calls : IsCall(i, "SavePullRequest") /\ calls[i].ent = c[2]
          /\ FetchesOf(c[1], c[2]) = {}

(* ----------------------------------------------------------------- C8 *)
\* The connections nested in a node of each kind.
ConnectionsIn(kind) ==
    CASE kind = "issue" ->
             {"downloadIssueAssignees", "downloadIssueLabels",
              "downloadIssueComments"}
      [] kind = "pullRequest" ->
             {"downloadPullRequestAssignees", "downloadPullRequestLabels",
              "downloadPullRequestComments", "downloadPullRequestReviews"}
      [] kind = "review" -> {"downloadReviewComments"}
      [] OTHER -> {}

Children(n) == {m \in 1..Len(src) : src[m].parent = n}

\* Before call j node n was saved (unless it is an item of a list), each of
\* its nested connections was read to its last page, and the same holds of
\* every node below it.
RECURSIVE ProcessedBefore(_, _)
ProcessedBefore(n, j) ==
    /\ src[n].kind \notin {"user", "label", "topic"} =>
          \E i \in 1..(j - 1) : IsSave(i) /\ calls[i].ent = n /\ calls[i].ok
    /\ \A fn \in ConnectionsIn(src[n].kind) : ExhaustedBefore(fn, n, j)
    /\ \A m \in Children(n) : ProcessedBefore(m, j)

\* The node itself and the nodes above it.
Ancestors(n) ==
    {n, Parent(n), Parent(Parent(n)), Parent(Parent(Parent(n)))} \ {0}

\* A query for the connection of page i made after page i was read and
\* before call k.
FetchedOnSince(i, k) ==
    \E j \in Calls :
        /\ pages[i].at < j
        /\ j < k
        /\ IsFetch(j)
        /\ calls[j].conn = pages[i].conn
        /\ calls[j].ent = pages[i].ent

\* C8: page k+1 of a connection is fetched only after every node of pages
\* 1..k has been processed completely, its whole nested subtree included, and
\* no call of such a subtree follows the fetch.
C8_FetchAfterPageProcessed ==
    calls # <<>> =>
        /\ IsFetch(Last) =>
              \A i \in 1..Len(pages) :
                  (/\ pages[i].conn = calls[Last].conn
                   /\ pages[i].ent = calls[Last].ent
                   /\ pages[i].at < Last) =>
                      \A x \in 1..Len(pages[i].nodes) :
                          ProcessedBefore(pages[i].nodes[x], Last)
        /\ \A n \in Ancestors(Subject(Last)) :
              \A i \in 1..Len(pages) :
                  InPage(n, i) => ~FetchedOnSince(i, Last)

\* The second page of pull requests is fetched after a fetch made for a
\* connection nested in a pull request of the first page.
C8_Witness ==
    \E j \in Calls, k \in Calls :
        /\ k < j
        /\ IsFetch(j) /\ calls[j].conn = "downloadPullRequests" /\ calls[j].ok
        /\ IsFetch(k) /\ calls[k].ok
        /\ calls[k].ent # 0
        /\ src[calls[k].ent].kind = "pullRequest"

(* ----------------------------------------------------------------- C9 *)
AssigneesOf(call) ==
    IF call = "SaveIssue" THEN "downloadIssueAssignees"
    ELSE "downloadPullRequestAssignees"

LabelsOf(call) ==
    IF call = "SaveIssue" THEN "downloadIssueLabels"
    ELSE "downloadPullRequestLabels"

ListWalks == {"downloadIssueAssignees", "downloadIssueLabels",
              "downloadPullRequestAssignees", "downloadPullRequestLabels"}

\* Call k is a query for the Assignees or Labels of node u.
IsListFetch(k, u) ==
    IsFetch(k) /\ calls[k].ent = u /\ calls[k].conn \in ListWalks

\* Call k is the Save call of issue or pull request u.
IsSaveOf(k, u) ==
    calls[k].call \in {"SaveIssue", "SavePullRequest"} /\ calls[k].ent = u

\* C9: for every issue and pull request all pages of its Assignees and Labels
\* connections are fetched before the entity's own Save call, which receives
\* the complete lists; every Save and fetch for its comments and reviews
\* comes after that Save call.
C9_ListsBeforeSaveRestAfter ==
    calls # <<>> =>
        LET u == TopEntity(Subject(Last)) IN
        u # 0 =>
            IF IsSaveOf(Last, u)
            THEN LET A == AssigneesOf(calls[Last].call)
                     L == LabelsOf(calls[Last].call)
                 IN /\ ExhaustedBefore(A, u, Last)
                    /\ ExhaustedBefore(L, u, Last)
                    /\ calls[Last].l1 = ConnNodes(A, u)
                    /\ calls[Last].l2 = ConnNodes(L, u)
                    /\ \A k \in 1..(Last - 1) :
                          InSubtree(Subject(k), u) => IsListFetch(k, u)
                    /\ \A i \in 1..Len(pages) :
                          (pages[i].at < Last /\ InSubtree(pages[i].ent, u)) =>
                              pages[i].ent = u /\ pages[i].conn \in {A, L}
            ELSE IF IsListFetch(Last, u)
            THEN \A k \in 1..(Last - 1) : ~IsSaveOf(k, u)
            ELSE \E k \in 1..(Last - 1) : IsSaveOf(k, u) /\ calls[k].ok

\* An issue saved with an assignee that came on a fetched page, and a comment
\* of that issue saved afterwards.
C9_Witness ==
    \E j \in Calls, k \in Calls, l \in Calls :
        /\ k < j /\ j < l
        /\ IsCall(j, "SaveIssue") /\ calls[j].l1 # <<>>
        /\ IsFetch(k) /\ calls[k].conn = "downloadIssueAssignees"
        /\ calls[k].ent = calls[j].ent
        /\ IsCall(l, "SaveIssueComment") /\ Parent(calls[l].ent) = calls[j].ent

(* ---------------------------------------------------------------- C10 *)
Owner(i) == TopEntity(Subject(i))

\* The first call that belongs to the subtree of entity t.
FirstOf(t) ==
    LET own == {i \in Calls : Owner(i) = t}
    IN CHOOSE i \in own : \A k \in own : i <= k

\* C10: sibling entities are never interleaved: between the first and the
\* last call that belongs to the subtree of one issue or pull request no
\* call belongs to another issue or pull request.
C10_SiblingsNotInterleaved ==
    (calls # <<>> /\ Owner(Last) # 0) =>
        \A j \in FirstOf(Owner(Last))..Last : Owner(j) \in {0, Owner(Last)}

\* Two pull requests, each with at least two calls of its own.
C10_Witness ==
    \E i \in Calls, k \in Calls :
        /\ i + 1 < k
        /\ Owner(i) # 0 /\ Owner(k) # 0 /\ Owner(i) # Owner(k)
        /\ Owner(i + 1) = Owner(i)
        /\ Owner(k - 1) = Owner(k)
        /\ src[Owner(i)].kind = "pullRequest"
        /\ src[Owner(k)].kind = "pullRequest"

(* ---------------------------------------------------------------- C11 *)
\* The Save calls of the reviews of pull request p made before call j.
ReviewSavesBefore(p, j) ==
    {i \in 1..(j - 1) : /\ IsCall(i, "SavePullRequestReview")
                        /\ Parent(calls[i].ent) = p}

\* C11: within one pull request, when the Save call of a review is made every
\* review of that pull request saved earlier has had its Comments connection
\* read to the last page and each of those comments saved; and every fetch
\* and Save for the comments of a review comes before the Save call of any
\* later review of the same pull request.
C11_ReviewCommentsBeforeNextReview ==
    calls # <<>> =>
        /\ IsCall(Last, "SavePullRequestReview") =>
              \A i \in ReviewSavesBefore(Parent(Subject(Last)), Last) :
                  /\ ExhaustedBefore("downloadReviewComments", calls[i].ent, Last)
                  /\ SavedNodes("downloadReviewComments", calls[i].ent) =
                         ConnNodes("downloadReviewComments", calls[i].ent)
        /\ (Subject(Last) # 0 /\ ~IsCall(Last, "SavePullRequestReview")) =>
              \A r \in Ancestors(Subject(Last)) :
                  src[r].kind = "review" =>
                      \E i \in ReviewSavesBefore(Parent(r), Last) :
                          /\ calls[i].ent = r
                          /\ \A k \in ReviewSavesBefore(Parent(r), Last) : k <= i

\* A pull request with two reviews, the first of which has a comment that
\* was saved before the second review.
C11_Witness ==
    \E j \in Calls, k \in Calls, l \in Calls :
        /\ j < k /\ k < l
        /\ IsCall(j, "SavePullRequestReview")
        /\ IsCall(k, "SavePullRequestReviewComment")
        /\ Parent(calls[k].ent) = calls[j].ent
        /\ IsCall(l, "SavePullRequestReview")
        /\ Parent(calls[l].ent) = Parent(calls[j].ent)

(* ---------------------------------------------------------------- C12 *)
\* C12: under the traversal order of DownloadRepository no Save call returns
\* NotFound when the sink is the in-memory Mem, for every owner and name
\* argument and every response of the source: SavePullRequest,
\* SavePullRequestComment, SavePullRequestReview and
\* SavePullRequestReviewComment find their parent already stored.
C12_SaveFindsParent ==
    (sink = "Mem" /\ op = "DownloadRepository") =>
        /\ err # NotFound
        /\ \A i \in Calls : IsSave(i) => calls[i].ok

(* ---------------------------------------------------------------- C13 *)
\* The step is a call on the store with the arguments and the result of the
\* call before it, a successful Save.
SameSaveAgain ==
    /\ calls # <<>>
    /\ calls' = Append(calls, calls[Len(calls)])
    /\ calls[Len(calls)].call \in MemSaves
    /\ calls[Len(calls)].ok

\* C13: every Save operation of the in-memory Mem sink is idempotent by id:
\* saving the same entity a second time does not fail and leaves the state of
\* the sink as it was after the first call (repository, pull request, pull
\* request comment, review and review comment alike).
C13_SaveIdempotent == [][SameSaveAgain => Repos' = Repos]_vars

(* ---------------------------------------------------------------- C14 *)
\* The Save call that stores the parent of the entity Save call e is about.
ParentSave(e) ==
    CASE e.call = "SavePullRequest" ->
             [call |-> "SaveRepository", number |-> 0, review |-> 0]
      [] e.call \in {"SavePullRequestComment", "SavePullRequestReview"} ->
             [call |-> "SavePullRequest", number |-> e.number, review |-> 0]
      [] e.call = "SavePullRequestReviewComment" ->
             [call |-> "SavePullRequestReview", number |-> e.number,
              review |-> e.review]

\* The parent of the entity of Save call e was never saved.
ParentNeverSaved(e) ==
    \A i \in Calls :
        ~(/\ calls[i].call = ParentSave(e).call
          /\ calls[i].owner = e.owner
          /\ calls[i].name = e.name
          /\ calls[i].number = ParentSave(e).number
          /\ calls[i].review = ParentSave(e).review)

\* C14: a Save call on Mem whose parent was never saved (SavePullRequest for
\* a repository, SavePullRequestComment or SavePullRequestReview for a pull
\* request, SavePullRequestReviewComment for a review) returns NotFound, and a
\* call that returns NotFound leaves the Repos mapping as it was.
C14_NotFoundLeavesRepos ==
    [][(Len(calls') = Len(calls) + 1) =>
          LET e == calls'[Len(calls')] IN
          /\ (e.call \in MemSaves \ {"SaveRepository"} /\ ParentNeverSaved(e))
                 => err' = NotFound
          /\ err' = NotFound => (Repos' = Repos /\ ~e.ok)]_vars

\* A review comment was refused for a review never saved, on a store that
\* holds the repository and the pull request.
C14_Witness ==
    /\ calls # <<>>
    /\ IsCall(Last, "SavePullRequestReviewComment")
    /\ ~calls[Last].ok
    /\ err = NotFound
    /\ HasPR(Repos, "o", "n", 1)

(* ---------------------------------------------------------------- C15 *)
Downloads == {"DownloadRepository", "DownloadOrganization"}

\* C15: in every run of DownloadRepository and DownloadOrganization the
\* generation is set on the sink exactly once, with the version the caller
\* passed, before any Save call (it is the first call of the run).
C15_VersionOnceFirst ==
    op \in Downloads =>
        /\ calls # <<>>
        /\ IsCall(1, "Version")
        /\ calls[1].version = args.version
        /\ \A i \in 2..Len(calls) : ~IsCall(i, "Version")

\* A finished run of DownloadOrganization that saved a member.
C15_Witness ==
    /\ Done
    /\ op = "DownloadOrganization"
    /\ \E i \in Calls : IsCall(i, "SaveUser")

(* ---------------------------------------------------------------- C16 *)
\* The calls a step adds to the log.
NewCalls == SubSeq(calls', Len(calls) + 1, Len(calls'))

\* The step is one call of Downloader method o: it makes exactly one call on
\* the sink, method call with the version given.
OneCall(o, call) ==
    op' = o =>
        /\ Len(NewCalls) = 1
        /\ NewCalls[1].call = call
        /\ NewCalls[1].version = args'.version
        /\ ret' = NoError <=> NewCalls[1].ok

\* C16: DownloadRepository and DownloadOrganization never call
\* SetActiveVersion or Cleanup on the sink, on success or on failure;
\* SetActiveVersion is called only by SetCurrent and the sink's Cleanup only
\* by Downloader.Cleanup, each exactly once per call, with the version given,
\* and with no Save, Begin, Commit or Rollback.
C16_ActivationDecoupled ==
    [][/\ \A i \in 1..Len(NewCalls) :
             /\ NewCalls[i].call = "SetActiveVersion" => op' = "SetCurrent"
             /\ NewCalls[i].call = "Cleanup" => op' = "Cleanup"
       /\ OneCall("SetCurrent", "SetActiveVersion")
       /\ OneCall("Cleanup", "Cleanup")]_vars

\* Cleanup was called after SetCurrent.
C16_Witness ==
    /\ op = "Cleanup"
    /\ Len(calls) = 2
    /\ IsCall(1, "SetActiveVersion")
    /\ IsCall(2, "Cleanup")
    /\ calls[2].version = 2

(* ---------------------------------------------------------------- C17 *)
\* The generation call i belongs to: the version most recently passed to
\* Version before it (0, the value of an int never set, if there was none).
GenAt(i) ==
    LET vs == {k \in 1..(i - 1) : IsCall(k, "Version")}
    IN IF vs = {} THEN 0
       ELSE calls[CHOOSE k \in vs : \A l \in vs : l <= k].version

\* The successful Save call j replaces or drops what Save call i wrote.
Overwrites(j, i) ==
    /\ calls[j].ok
    /\ calls[j].owner = calls[i].owner
    /\ calls[j].name = calls[i].name
    /\ CASE calls[j].call = "SaveRepository" -> TRUE
         [] calls[j].call = "SavePullRequest" ->
                /\ calls[i].call # "SaveRepository"
                /\ calls[i].number = calls[j].number
         [] calls[j].call = "SavePullRequestReview" ->
                /\ calls[i].call \in {"SavePullRequestReview",
                                      "SavePullRequestReviewComment"}
                /\ calls[i].number = calls[j].number
                /\ calls[i].review = calls[j].review
         [] OTHER -> FALSE

\* The Save calls whose row a reader of Repos finds.
RowsIn ==
    {i \in Calls : /\ calls[i].call \in MemSaves
                   /\ calls[i].ok
                   /\ \A j \in (i + 1)..Len(calls) : ~Overwrites(j, i)}

\* The generations of the rows a reader finds under the repository.
GenerationsSeen == {GenAt(i) : i \in RowsIn}

\* The version that was active before call i.
ActiveBefore(i) ==
    LET as == {k \in 1..(i - 1) : IsCall(k, "SetActiveVersion")}
    IN IF as = {} THEN 0
       ELSE calls[CHOOSE k \in as : \A l \in as : l <= k].version

\* C17: a reader that reads the store while SetActiveVersion(v+1) runs sees,
\* for a given repository, the rows of one generation only, the one that was
\* active or the one being activated, never rows of both.
C17_ReaderSeesOneGeneration ==
    (calls # <<>> /\ IsCall(Last, "SetActiveVersion")) =>
        \/ GenerationsSeen \subseteq {ActiveBefore(Last)}
        \/ GenerationsSeen \subseteq {calls[Last].version}

(* ---------------------------------------------------------------- C18 *)
\* C18: after Cleanup(v) the store holds no data of any generation other than
\* v.  (The rest of the claim, that generation v is left as it was, is true
\* of a Cleanup that removes nothing.)
C18_CleanupKeepsOnlyCurrent ==
    (calls # <<>> /\ IsCall(Last, "Cleanup")) =>
        GenerationsSeen \subseteq {calls[Last].version}


(* ---------------------------------------------------------------- C19 *)
\* The endCursor reported by the k-th page of connection fn of node ent.
EndCursorOf(fn, ent, k) == [conn |-> fn, ent |-> ent, page |-> k]

\* C19: a fetch passes as its cursor the endCursor of the page read last of
\* that same connection of that same entity, and the first page of every
\* connection of every entity is the one embedded in the parent's response,
\* so no cursor crosses from one connection or entity to another.
C19_CursorOfPreviousPage ==
    (calls # <<>> /\ IsFetch(Last)) =>
        LET c == calls[Last]
            before == PagesBefore(c.conn, c.ent, Last)
        IN /\ before # <<>>
           /\ ~before[1].fetched
           /\ \A k \in 2..Len(before) : before[k].fetched
           /\ c.cursor = EndCursorOf(c.conn, c.ent, Len(before))

\* Reached: a nested connection of an entity that arrived on a fetched page
\* is continued by a fetch.
C19_Witness ==
    /\ calls # <<>>
    /\ IsFetch(Last)
    /\ calls[Last].ok
    /\ \E k \in 1..Len(pages) :
          /\ pages[k].fetched
          /\ \E n \in 1..Len(pages[k].nodes) :
                pages[k].nodes[n] = calls[Last].ent


(* ---------------------------------------------------------------- C20 *)
\* A fetch is made only when the page read last of its connection reported
\* hasNextPage = true.
FetchOnlyAfterMore ==
    (calls # <<>> /\ IsFetch(Last)) =>
        LET before == PagesBefore(calls[Last].conn, calls[Last].ent, Last)
        IN before # <<>> /\ before[Len(before)].hasNextPage

\* C20 as stated, in the form a finite run refutes: a DownloadRepository or
\* DownloadOrganization run that has terminated has called Commit or Rollback.
C20_TerminatedWithFinal == (Done /\ op \in Downloads) => Finals # {}

\* C20, amended: every DownloadRepository and DownloadOrganization run
\* eventually terminates, having called Commit or Rollback whenever its Begin
\* succeeded, and a walk stops fetching a connection as soon as a page reports
\* hasNextPage = false.
C20_Terminates ==
    /\ [](FetchOnlyAfterMore)
    /\ (op \in Downloads) ~> (Done /\ (BeginSucceeded => Finals # {}))

\* Reached: a run whose Begin succeeded has ended with Commit after a walk
\* fetched a page that reported hasNextPage = false.
C20_Witness ==
    /\ Done
    /\ op \in Downloads
    /\ BeginSucceeded
    /\ \E i \in Calls : IsCall(i, "Commit")
    /\ \E k \in 1..Len(pages) : pages[k].fetched /\ ~pages[k].hasNextPage


(* ---------------------------------------------------------------- C21 *)
CallsOf(c) == {i \in Calls : IsCall(i, c)}

\* C21: a DownloadOrganization run makes no Save call other than
\* SaveOrganization and SaveUser, calls SaveOrganization at most once and
\* before any SaveUser; a successful run calls SaveOrganization exactly once
\* and SaveUser once per member, in the order the member pages delivered them.
C21_OrganizationThenMembers ==
    op = "DownloadOrganization" =>
        /\ \A i \in Calls :
              IsSave(i) => calls[i].call \in {"SaveOrganization", "SaveUser"}
        /\ Cardinality(CallsOf("SaveOrganization")) <= 1
        /\ \A i \in CallsOf("SaveUser") :
              \E j \in 1..(i - 1) : IsCall(j, "SaveOrganization") /\ calls[j].ok
        /\ Succeeded =>
              /\ Cardinality(CallsOf("SaveOrganization")) = 1
              /\ \A i \in CallsOf("SaveOrganization") :
                    /\ Exhausted("downloadUsers", calls[i].ent)
                    /\ SavedNodes("downloadUsers", calls[i].ent)
                           = ConnNodes("downloadUsers", calls[i].ent)
                    /\ Cardinality(CallsOf("SaveUser"))
                           = Len(ConnNodes("downloadUsers", calls[i].ent))

\* Reached: a successful organization run whose members came on two pages,
\* both with nodes.
C21_Witness ==
    /\ Succeeded
    /\ op = "DownloadOrganization"
    /\ \E k \in 1..Len(pages) : pages[k].fetched /\ pages[k].nodes # <<>>
    /\ \E k \in 1..Len(pages) : ~pages[k].fetched /\ pages[k].nodes # <<>>
    /\ Cardinality(CallsOf("SaveUser")) >= 2


(* ---------------------------------------------------------------- C22 *)
\* The Repos map after the calls of log l were made one after another on an
\* empty Mem, and whether each returned what the log says.
RECURSIVE Replay(_)
Replay(l) ==
    IF l = <<>> THEN [Repos |-> EmptyMap, same |-> TRUE]
    ELSE LET before == Replay(SubSeq(l, 1, Len(l) - 1))
             r == MemCall(before.Repos, l[Len(l)])
         IN [Repos |-> r.Repos,
             same |-> before.same /\ (l[Len(l)].ok = (r.err = NoError))]

\* C22: under any interleaving of Save calls made by several callers on one
\* Mem, whenever no call is under way the Repos map and the result of every
\* call are those of running the same calls one after another, in the order
\* in which they returned: every call took effect atomically and none is lost.
C22_SavesAtomic ==
    InProgress \subseteq {t \in DOMAIN callers : callers[t].pc = "lock"} =>
        /\ Replay(calls).same
        /\ Replay(calls).Repos = Repos

\* Reached: one caller is about to store a comment of a pull request while
\* another waits for the mutex to save a comment of the same pull request.
C22_Witness ==
    \E t, u \in DOMAIN callers :
        /\ callers[t].pc = "assign"
        /\ callers[t].e.call = "SavePullRequestComment"
        /\ callers[u].pc = "lock"
        /\ callers[u].e.call = "SavePullRequestComment"


(* ---------------------------------------------------------------- C23 *)
DestCalls == 1..Len(dest)

CreatesOf(p) ==
    {k \in DestCalls : dest[k].call = "CreatePullRequest" /\ dest[k].pr = p}

\* C23: the bridge makes no call on the destination for a pull request of the
\* snapshot whose state is not OPEN, and by the time migrate has returned it
\* has called CreatePullRequest once for every pull request whose state is
\* OPEN.
C23_OnlyOpenMigrated ==
    /\ \A k \in DestCalls : BridgePRs[dest[k].pr].PullRequest.State = "OPEN"
    /\ (bridge.pc = "returned" /\ bridge.ret = NoError) =>
          \A p \in DOMAIN BridgePRs :
              BridgePRs[p].PullRequest.State = "OPEN" =>
                  /\ Cardinality(CreatesOf(p)) = 1
                  /\ \A k \in CreatesOf(p) :
                        dest[k].text.of = BridgePRs[p].PullRequest

\* Reached: migrate has returned from a snapshot with an OPEN pull request
\* and one that is not OPEN.
C23_Witness ==
    /\ bridge.pc = "returned"
    /\ bridge.ret = NoError
    /\ \E p, q \in DOMAIN BridgePRs :
          /\ BridgePRs[p].PullRequest.State = "OPEN"
          /\ BridgePRs[q].PullRequest.State = "MERGED"
    /\ Len(dest) >= 1


(* ---------------------------------------------------------------- C24 *)
LastDest == Len(dest)

\* The source entities for which calls a..b created something of kind kd for
\* pull request p, in the order of the calls.
Created(p, kd, a, b) ==
    LET s == SelectSeq(SubSeq(dest, a, b),
                       LAMBDA d : d.pr = p /\ d.text.kind = kd)
    IN [i \in 1..Len(s) |-> s[i].text.of]

\* The latest call before k that created something of kind kd for pull
\* request p; 0 if there is none.
LatestOf(p, kd, k) ==
    LET js == {j \in 1..(k - 1) : dest[j].pr = p /\ dest[j].text.kind = kd}
    IN IF js = {} THEN 0 ELSE CHOOSE j \in js : \A i \in js : i <= j

\* C24: for each pull request the bridge migrates, the pull request is
\* created first, then every top-level comment in order, then for each review
\* one comment for the review followed by the review's own comments, each
\* with the id returned for its review's comment as Parent.  Stated of the
\* call just made on the destination.
C24_DestinationOrder ==
    dest # <<>> =>
        LET d == dest[LastDest]
            p == d.pr
            pr == BridgePRs[p]
            c == LatestOf(p, "pullRequest", LastDest)
            r == LatestOf(p, "review", LastDest)
        IN IF d.text.kind = "pullRequest"
           THEN /\ \A j \in 1..(LastDest - 1) : dest[j].pr # p
                /\ d.prId = 0
                /\ d.parent = 0
           ELSE /\ c # 0
                /\ \A j \in c..(LastDest - 1) : dest[j].pr = p /\ dest[j].ok
                /\ d.prId = dest[c].id
                /\ CASE d.text.kind = "comment" ->
                          /\ r = 0
                          /\ d.parent = 0
                          /\ IsPrefix(Created(p, "comment", c, LastDest),
                                      pr.Comments)
                     [] d.text.kind = "review" ->
                          /\ d.parent = 0
                          /\ Created(p, "comment", c, LastDest) = pr.Comments
                          /\ \A j \in c..(LastDest - 1) :
                                dest[j].text # d.text
                          /\ r # 0 =>
                                Created(p, "reviewComment", r, LastDest)
                                    = pr.Reviews[dest[r].text.of.Id].Comments
                     [] d.text.kind = "reviewComment" ->
                          /\ r # 0
                          /\ d.parent = dest[r].id
                          /\ \A j \in (r + 1)..LastDest :
                                dest[j].text.kind = "reviewComment"
                          /\ IsPrefix(Created(p, "reviewComment", r, LastDest),
                                      pr.Reviews[dest[r].text.of.Id].Comments)

\* Reached: the comment of a review was created after the pull request, a
\* top-level comment and the review's comment.
C24_Witness ==
    /\ dest # <<>>
    /\ dest[LastDest].text.kind = "reviewComment"
    /\ dest[LastDest].ok
    /\ \E j \in DestCalls :
          dest[j].pr = dest[LastDest].pr /\ dest[j].text.kind = "comment"


(* ---------------------------------------------------------------- C25 *)
StorerCalls ==
    SaveCalls \cup {"Begin", "Commit", "Rollback", "Version",
                    "SetActiveVersion", "Cleanup"}

\* C25: on a Mem every call of a method other than SaveRepository and the
\* four pull request Saves succeeds and leaves Repos as it was, and Repos
\* changes only in a step that calls one of those five.
C25_MemNoops ==
    [][/\ \A i \in 1..Len(NewCalls) :
             (/\ NewCalls[i].call \in StorerCalls
              /\ NewCalls[i].call \notin MemSaves) =>
                 NewCalls[i].ok /\ Repos' = Repos
       /\ Repos' # Repos =>
             \E i \in 1..Len(NewCalls) : NewCalls[i].call \in MemSaves]_vars

\* Reached: SaveIssueComment was called on a Mem that holds a repository.
C25_Witness ==
    /\ sink = "Mem"
    /\ calls # <<>>
    /\ calls[Last].call = "SaveIssueComment"
    /\ calls[Last].ok
    /\ Repos # EmptyMap


(* ---------------------------------------------------------------- C26 *)
IssueWalks == {"downloadIssues", "downloadIssueAssignees",
               "downloadIssueLabels", "downloadIssueComments"}

PullRequestWalks == {"downloadPullRequests", "downloadPullRequestAssignees",
                     "downloadPullRequestLabels", "downloadPullRequestComments",
                     "downloadPullRequestReviews", "downloadReviewComments"}

\* Call i is a Save or a fetch of the issue subgraph.
InIssues(i) ==
    \/ calls[i].call \in {"SaveIssue", "SaveIssueComment"}
    \/ IsFetch(i) /\ calls[i].conn \in IssueWalks

\* Call i is a Save or a fetch of the pull request subgraph.
InPullRequests(i) ==
    \/ calls[i].call \in {"SavePullRequest", "SavePullRequestComment",
                          "SavePullRequestReview",
                          "SavePullRequestReviewComment"}
    \/ IsFetch(i) /\ calls[i].conn \in PullRequestWalks

\* C26: in a DownloadRepository run SaveRepository is called once, after
\* the last page of the topics was read and with the topics of all pages in
\* arrival order, and before any issue or pull request Save; every Save and
\* fetch of the issue subgraph precedes every one of the pull request
\* subgraph.  Stated of the call just made, and of a successful run.
C26_RepositoryThenIssuesThenPullRequests ==
    (op = "DownloadRepository" /\ calls # <<>>) =>
        /\ IsCall(Last, "SaveRepository") =>
              /\ \A i \in 1..(Last - 1) : ~IsSave(i)
              /\ Exhausted("downloadTopics", calls[Last].ent)
              /\ calls[Last].l1 = ConnNodes("downloadTopics", calls[Last].ent)
        /\ (IsFetch(Last) /\ calls[Last].conn = "downloadTopics") =>
              CallsOf("SaveRepository") = {}
        /\ (InIssues(Last) \/ InPullRequests(Last)) =>
              \E i \in 1..(Last - 1) :
                  IsCall(i, "SaveRepository") /\ calls[i].ok
        /\ InIssues(Last) => \A i \in 1..(Last - 1) : ~InPullRequests(i)
        /\ Succeeded => Cardinality(CallsOf("SaveRepository")) = 1

\* Reached: a successful run whose topics came on two pages and that saved an
\* issue and a pull request.
C26_Witness ==
    /\ Succeeded
    /\ op = "DownloadRepository"
    /\ \E k \in 1..Len(pages) :
          /\ pages[k].conn = "downloadTopics"
          /\ pages[k].fetched
          /\ pages[k].nodes # <<>>
    /\ CallsOf("SaveIssue") # {}
    /\ CallsOf("SavePullRequest") # {}


(* ---------------------------------------------------------------- C29 *)
BeginFailed == \E i \in Calls : IsCall(i, "Begin") /\ ~calls[i].ok

\* C29: when Begin fails, DownloadRepository and DownloadOrganization return
\* an error and the calls of the run are the Version call and the failed
\* Begin: no query, no fetch, no Save, no Commit and no Rollback.
C29_BeginFailureReturnsAtOnce ==
    (op \in Downloads /\ BeginFailed) =>
        /\ Done
        /\ Failed(ret)
        /\ Len(calls) = 2
        /\ IsCall(1, "Version")
        /\ IsCall(2, "Begin")
        /\ pages = <<>>
        /\ src = <<>>

\* Reached: DownloadOrganization has returned after a failed Begin.
C29_Witness ==
    /\ Done
    /\ BeginFailed
    /\ op = "DownloadOrganization"


(* ---------------------------------------------------------------- C30 *)
BridgeHasRepo == HasRepo(Repos, GithubRepoOwner, GithubRepoName)

\* C30: after a destination call for a pull request failed the bridge makes
\* no further call for that pull request; when migrate has returned from a
\* snapshot that holds the repository it returned nil and every OPEN pull
\* request had its CreatePullRequest call; from a snapshot without the
\* repository migrate returns an error and makes no destination call.
C30_FailureStopsOnePullRequest ==
    /\ \A k \in DestCalls :
          ~dest[k].ok => \A j \in (k + 1)..Len(dest) : dest[j].pr # dest[k].pr
    /\ (bridge.pc = "returned" /\ BridgeHasRepo) =>
          /\ bridge.ret = NoError
          /\ \A p \in DOMAIN BridgePRs :
                BridgePRs[p].PullRequest.State = "OPEN" => CreatesOf(p) # {}
    /\ ~BridgeHasRepo =>
          /\ dest = <<>>
          /\ bridge.pc = "returned" => bridge.ret = NoRepoError

\* Reached: migrate has returned after a failed call for one pull request
\* that was followed by calls for another.
C30_Witness ==
    /\ bridge.pc = "returned"
    /\ \E k \in DestCalls :
          /\ ~dest[k].ok
          /\ \E j \in (k + 1)..Len(dest) : dest[j].pr # dest[k].pr


(* ---------------------------------------------------------------- C28 *)
GetMemStoreReturned == bridge.pc \in {"migrate", "returned"}

\* C28: GetMemStore hands a Mem to the bridge only when DownloadRepository
\* returned no error, and nil with the error otherwise: a store that the
\* bridge receives comes from a run in which no query, fetch or Save failed.
C28_StoreOnlyAfterSuccess ==
    /\ bridge.m = "Mem" =>
          /\ Succeeded
          /\ bridge.ret = NoError
          /\ AllSucceeded
    /\ GetMemStoreReturned =>
          /\ Done
          /\ Failed(ret) =>
                /\ bridge.m = "nil"
                /\ bridge.ret = ret
                /\ bridge.pc = "returned"
          /\ ~Failed(ret) => bridge.m = "Mem"

\* Reached: GetMemStore has returned nil after a run that failed with the
\* repository already stored.
C28_Witness ==
    /\ GetMemStoreReturned
    /\ bridge.m = "nil"
    /\ Failed(bridge.ret)
    /\ Repos # EmptyMap


(* ---------------------------------------------------------------- C27 *)
\* The repository node of the root response.
Root == CHOOSE n \in 1..Len(src) : src[n].kind = "repository"

NodesOf(kind, parent) ==
    {n \in 1..Len(src) : src[n].kind = kind /\ src[n].parent = parent}

\* Pull request numbers are distinct within the repository and review ids
\* within each pull request.
DistinctKeys ==
    /\ \A p, q \in NodesOf("pullRequest", Root) :
          src[p].num = src[q].num => p = q
    /\ \A p \in NodesOf("pullRequest", Root) :
       \A r, t \in NodesOf("review", p) :
          src[r].num = src[t].num => r = t

\* The snapshot that Mem holds of the repository downloaded.
Stored == Repos[src[Root].login][args.name]

\* C27: after a successful DownloadRepository run against Mem, pull request
\* numbers and the review ids of each pull request being distinct, the
\* stored pull requests are exactly the source's, and the Assignees, Labels
\* and Comments of each and the Comments of each of its reviews are that
\* connection's nodes in the order the source delivered them.
C27_SnapshotMatchesSource ==
    (Succeeded /\ op = "DownloadRepository" /\ sink = "Mem" /\ DistinctKeys) =>
        /\ HasRepo(Repos, src[Root].login, args.name)
        /\ DOMAIN Stored.PRs =
              {src[p].num : p \in NodesOf("pullRequest", Root)}
        /\ \A p \in NodesOf("pullRequest", Root) :
              LET s == Stored.PRs[src[p].num] IN
              /\ s.PullRequest = p
              /\ s.Assignees = ConnNodes("downloadPullRequestAssignees", p)
              /\ s.Labels = ConnNodes("downloadPullRequestLabels", p)
              /\ s.Comments = ConnNodes("downloadPullRequestComments", p)
              /\ DOMAIN s.Reviews = {src[r].num : r \in NodesOf("review", p)}
              /\ \A r \in NodesOf("review", p) :
                    /\ s.Reviews[src[r].num].PullRequestReview = r
                    /\ s.Reviews[src[r].num].Comments =
                          ConnNodes("downloadReviewComments", r)

\* Reached: a successful run has stored a pull request with two comments.
C27_Witness ==
    /\ Succeeded
    /\ op = "DownloadRepository"
    /\ sink = "Mem"
    /\ DistinctKeys
    /\ \E p \in NodesOf("pullRequest", Root) :
          Len(Stored.PRs[src[p].num].Comments) = 2


(* ---------------------------------------------------------------- C31 *)
\* The page size configured for the kind of nodes that connection fn holds.
ConfiguredSize(fn) ==
    CASE NodeKind(fn) = "user" -> 2
      [] NodeKind(fn) = "label" -> 2
      [] fn \in {"downloadIssueComments", "downloadPullRequestComments"} -> 10
      [] fn = "downloadIssues" -> 50
      [] fn = "downloadPullRequests" -> 50
      [] fn = "downloadPullRequestReviews" -> 5
      [] fn = "downloadReviewComments" -> 5
      [] fn = "downloadTopics" -> 50
      [] fn = "downloadUsers" -> 100

\* C31: every fetch for a connection passes the page size configured for the
\* kind of that connection (assignees 2, labels 2, issue and pull request
\* comments 10, issues 50, pull requests 50, reviews 5, review comments 5,
\* topics 50, organization members 100); a fetch of the labels of a pull
\* request passes the labels page size.
C31_FetchPassesConfiguredSize ==
    \A i \in Calls :
        IsFetch(i) =>
            /\ calls[i].size = ConfiguredSize(calls[i].conn)
            /\ calls[i].conn = "downloadPullRequestLabels" =>
                  calls[i].size = labelsPage

\* Reached: the labels of a pull request were fetched.
C31_Witness ==
    \E i \in Calls :
        /\ IsFetch(i)
        /\ calls[i].ok
        /\ calls[i].conn = "downloadPullRequestLabels"

====
